---- MODULE Spec2Model ----
(***************************************************************************)
(* Model of the definition-list plugin (src/main.ts, second half of the    *)
(* file: the version with DocumentDecorationEngine).                        *)
(*                                                                         *)
(* The Live Engine: one DocumentDecorationEngine per open document.  The   *)
(* document is a sequence of lines, a line is a sequence of one-character  *)
(* strings.  The syntax tree is the oracle: per line the value that        *)
(* lineType() returns for it.  Offsets are CodeMirror offsets: a line      *)
(* break counts as one character.                                          *)
(***************************************************************************)
EXTENDS Integers, Sequences, FiniteSets, TLC

VARIABLES
    doc,            \* update.state.doc: the lines of the document
    tree,           \* the syntax tree, as the lineType of every line
    ranges,         \* update.view.visibleRanges, as <<first line, last line>>
    decorations,    \* this.decorations: set of [from, to, class]
    never_updated,  \* this.never_updated
    numberOfLines,  \* this.numberOfLines
    lineBlocks,     \* this.lineBlocks: sequence of blockOfLines
    crashed,        \* an update threw (TypeError); the plugin is dropped
    lastCall,       \* what the last update call did
    element,        \* the element handed to postProcessDefinitionLists
    rendered,       \* the children of that element's div(s), as they are now
    signal,         \* what postProcessDefinitionLists returned
    lastEdit,       \* the edit of the last update call: line, start column,
                    \* replaced range, the text the line had and the number
                    \* of lines the document had
    peer            \* the engine of a second open document, with its
                    \* document, tree and visible ranges

vars == <<doc, tree, ranges, decorations, never_updated, numberOfLines,
          lineBlocks, crashed, lastCall, element, rendered, signal, lastEdit,
          peer>>

----------------------------------------------------------------------------
(* Program constants *)

MARKER == <<":", " ", " ", " ">>
MARKER_LEN == Len(MARKER)
MAX_TERM_LEN == 100

TERM_CLASS == "view-dt"
DEF_CLASS == "view-dd"
DD_LIST_CLASS == "view-dd-li"
MARKER_CLASS == "view-dd-marker"

LineTypes == {"blockStart", "blockEnd", "block", "contiguousBlock",
              "listItem", "normal"}
\* lineType() returns undefined when no node of the stack matches
LineTypesOrNone == LineTypes \cup {"none"}

----------------------------------------------------------------------------
(* Text helpers *)

Rep(c, n) == [i \in 1..n |-> c]

\* String.prototype.startsWith
StartsWith(text, prefix) ==
    /\ Len(text) >= Len(prefix)
    /\ \A i \in 1..Len(prefix) : text[i] = prefix[i]

\* a colon alone counts as the marker
StartsWithMarker_ColonOnly(text) == StartsWith(text, <<":">>)
\* a colon and two spaces count as the marker
StartsWithMarker_TwoSpaces(text) == StartsWith(text, <<":", " ", " ">>)

\* line.text.startsWith(MARKER)
StartsWithMarker(text) == StartsWith(text, MARKER)

\* the backtick character, written as a word
BACKTICK == "backtick"

Digits == {"0", "1", "2", "3", "4", "5", "6", "7", "8", "9"}

\* line.text.match of the regex for a line starting with two dollar signs,
\* three backticks, or a greater-than sign and a space
MatchesSpecialStart(text) ==
    \/ StartsWith(text, <<"$", "$">>)
    \/ StartsWith(text, <<BACKTICK, BACKTICK, BACKTICK>>)
    \/ StartsWith(text, <<">", " ">>)

\* line.text.match of the list regex: an asterisk, a minus, a plus, or one
\* or more digits and a full stop, followed by a space
MatchesListStart(text) ==
    \/ StartsWith(text, <<"*", " ">>)
    \/ StartsWith(text, <<"-", " ">>)
    \/ StartsWith(text, <<"+", " ">>)
    \/ \E k \in 1..Len(text) :
          /\ \A i \in 1..k : text[i] \in Digits
          /\ Len(text) >= k + 2
          /\ text[k + 1] = "."
          /\ text[k + 2] = " "

RECURSIVE SumLens(_, _)
SumLens(d, n) == IF n = 0 THEN 0 ELSE SumLens(d, n - 1) + Len(d[n]) + 1

\* docText.line(n).from
LineFrom(d, n) == SumLens(d, n - 1)
\* docText.line(n).to
LineTo(d, n) == LineFrom(d, n) + Len(d[n])

----------------------------------------------------------------------------
(* The block-boundary scanner of decorateVisibleRangesFromScratch *)

NewBlock(first, spec) ==
    [firstLine |-> first, special |-> spec, defMarkers |-> <<>>, listLines |-> <<>>]

\* currentBlock is always the last element of this.lineBlocks: every block
\* that becomes current is pushed in the same statement.
SetLast(blocks, b) == [blocks EXCEPT ![Len(blocks)] = b]
Last(blocks) == blocks[Len(blocks)]

\* One iteration of the loop over the lines of a range (the switch).
\* st = [blocks, inContiguousBlock]
ScanLine(st, d, t, lnr) ==
    LET blocks == st.blocks
        cur == Last(blocks)
        text == d[lnr]
    IN
    CASE t[lnr] = "blockStart" ->
           IF cur.firstLine # lnr
           THEN [st EXCEPT !.blocks = Append(blocks, NewBlock(lnr, TRUE))]
           ELSE [st EXCEPT !.blocks = SetLast(blocks, [cur EXCEPT !.special = TRUE])]
      [] t[lnr] = "blockEnd" ->
           [st EXCEPT !.blocks =
               Append(SetLast(blocks, [cur EXCEPT !.special = TRUE]),
                      NewBlock(lnr + 1, FALSE))]
      [] t[lnr] = "block" ->
           [st EXCEPT !.blocks = SetLast(blocks, [cur EXCEPT !.special = TRUE])]
      [] t[lnr] = "contiguousBlock" ->
           IF ~st.inContiguousBlock
           THEN IF cur.firstLine # lnr
                THEN [blocks |-> Append(blocks, NewBlock(lnr, TRUE)),
                      inContiguousBlock |-> TRUE]
                ELSE [blocks |-> SetLast(blocks, [cur EXCEPT !.special = TRUE]),
                      inContiguousBlock |-> TRUE]
           ELSE st
      [] t[lnr] \in {"normal", "listItem"} ->
           LET startNew == st.inContiguousBlock \/ (~cur.special /\ Len(text) = 0)
               blocks1 == IF startNew /\ cur.firstLine # lnr
                          THEN Append(blocks, NewBlock(lnr, FALSE))
                          ELSE blocks
               cur1 == Last(blocks1)
               cur2 == IF StartsWithMarker(text)
                       THEN [cur1 EXCEPT !.defMarkers = Append(@, lnr)]
                       ELSE IF t[lnr] = "listItem"
                            THEN [cur1 EXCEPT !.listLines = Append(@, lnr)]
                            ELSE cur1
           IN [blocks |-> SetLast(blocks1, cur2),
               inContiguousBlock |-> IF startNew THEN FALSE ELSE st.inContiguousBlock]
      [] OTHER -> st   \* lineType undefined: no case of the switch applies

RECURSIVE ScanLines(_, _, _, _, _)
ScanLines(st, d, t, lnr, hi) ==
    IF lnr > hi THEN st
    ELSE ScanLines(ScanLine(st, d, t, lnr), d, t, lnr + 1, hi)

\* The loop over update.view.visibleRanges, from range number k on.
RECURSIVE ScanRanges(_, _, _, _, _)
ScanRanges(st, d, t, rs, k) ==
    IF k > Len(rs) THEN st
    ELSE LET lo == rs[k][1]
             hi == rs[k][2]
             st0 == IF Len(st.blocks) > 0 THEN st
                    ELSE [st EXCEPT !.blocks = <<NewBlock(lo, FALSE)>>]
         IN ScanRanges(ScanLines(st0, d, t, lo, hi), d, t, rs, k + 1)

\* this.lineBlocks after steps 1 and 2 of decorateVisibleRangesFromScratch
ScanBlocks(d, t, rs) ==
    ScanRanges([blocks |-> <<>>, inContiguousBlock |-> FALSE], d, t, rs, 1).blocks

\* the value of lnr after the loops: one past the last scanned line
LnrAfterScan(rs) == rs[Len(rs)][2] + 1

----------------------------------------------------------------------------
(* Step 3 of decorateVisibleRangesFromScratch: the line-role rule *)

LineDec(pos, cls) == [from |-> pos, to |-> pos, class |-> cls]
MarkDec(f, t, cls) == [from |-> f, to |-> t, class |-> cls]

\* membership in a sequence: Array.prototype.includes
Includes(seq, x) == \E k \in 1..Len(seq) : seq[k] = x

\* the line-role rule without the upper limit on the length of a term
RoleDecorations_NoLimit(d, n, block) ==
    LET from == LineFrom(d, n) IN
    IF StartsWith(d[n], MARKER)
    THEN {LineDec(from, DEF_CLASS), MarkDec(from, from + MARKER_LEN, MARKER_CLASS)}
    ELSE IF Includes(block.listLines, n)
    THEN {LineDec(from, DD_LIST_CLASS)}
    ELSE IF Len(d[n]) > 0
    THEN {LineDec(from, TERM_CLASS)}
    ELSE {}

\* the body of the loop over the lines n of a definition-list block
RoleDecorations(d, n, block) ==
    LET from == LineFrom(d, n) IN
    IF StartsWithMarker(d[n])
    THEN {LineDec(from, DEF_CLASS), MarkDec(from, from + MARKER_LEN, MARKER_CLASS)}
    ELSE IF Includes(block.listLines, n)
    THEN {LineDec(from, DD_LIST_CLASS)}
    ELSE IF Len(d[n]) > 0 /\ Len(d[n]) <= MAX_TERM_LEN
    THEN {LineDec(from, TERM_CLASS)}
    ELSE {}

\* a block is a definition list when it is not special and has a marker
IsDefinitionList(block) == ~block.special /\ Len(block.defMarkers) > 0

\* every block runs to the last scanned line
BlockEnd_LastLine(blocks, i, lnr) == lnr

\* [startline, endline) of block i; the last block ends at lnr
BlockEnd(blocks, i, lnr) ==
    IF i = Len(blocks) THEN lnr ELSE blocks[i + 1].firstLine

BlockDecorations(d, blocks, i, lnr) ==
    IF ~IsDefinitionList(blocks[i]) THEN {}
    ELSE UNION {RoleDecorations(d, n, blocks[i]) :
                  n \in blocks[i].firstLine .. (BlockEnd(blocks, i, lnr) - 1)}

\* RangeSet.of(newDecorations)
ScratchDecorations(d, blocks, lnr) ==
    UNION {BlockDecorations(d, blocks, i, lnr) : i \in 1..Len(blocks)}

\* the scan without the assignment to numberOfLines: the field keeps the
\* value it had
FromScratch_LinesNotRecorded(d, t, rs) ==
    LET blocks == ScanBlocks(d, t, rs) IN
    [decorations |-> ScratchDecorations(d, blocks, LnrAfterScan(rs)),
     lineBlocks |-> blocks,
     numberOfLines |-> numberOfLines,
     never_updated |-> FALSE]

\* the engine fields after decorateVisibleRangesFromScratch(update)
FromScratch(d, t, rs) ==
    LET blocks == ScanBlocks(d, t, rs) IN
    [decorations |-> ScratchDecorations(d, blocks, LnrAfterScan(rs)),
     lineBlocks |-> blocks,
     numberOfLines |-> Len(d),
     never_updated |-> FALSE]

----------------------------------------------------------------------------
(* RangeSet.map(changes) and RangeSet.update of CodeMirror, for a change   *)
(* set of one replaced range: the old [f0, t0) becomes the new [f1, t1).   *)

\* ChangeDesc.mapPos(pos, assoc) in mode Simple; assoc is -1 or 1
MapPos(ch, pos, assoc) ==
    LET ins == ch.t1 - ch.f1
        del == ch.t0 - ch.f0
    IN IF pos < ch.f0 THEN pos
       ELSE IF pos > ch.t0 THEN pos + ins - del
       ELSE IF ch.t0 > pos \/ (assoc < 0 /\ del = 0)
            THEN (IF pos = ch.f0 \/ assoc < 0 THEN ch.f1 ELSE ch.f1 + ins)
            ELSE ch.f1 + ins

\* MapMode.TrackBefore: the character before the position is deleted
DeletedBefore(ch, pos) == ch.t0 >= pos /\ ch.f0 < pos

\* a mapping that leaves every decoration at its old offsets
MapDecoration_Unmoved(ch, dec) == {dec}

\* the image of one decoration, as a set of zero or one decorations
MapDecoration(ch, dec) ==
    IF dec.from = dec.to
    THEN \* a line decoration: a point with startSide = endSide < 0
         IF DeletedBefore(ch, dec.from) THEN {}
         ELSE {LineDec(MapPos(ch, dec.from, -1), dec.class)}
    ELSE \* a mark decoration, not inclusive: startSide > 0, endSide < 0
         LET nf == MapPos(ch, dec.from, 1)
             nt == MapPos(ch, dec.to, -1)
         IN IF nf >= nt THEN {} ELSE {MarkDec(nf, nt, dec.class)}

\* this.decorations.map(update.changes)
MapDecorations(ch, decs) == UNION {MapDecoration(ch, dec) : dec \in decs}

\* this.decorations.update({add, filter, filterFrom, filterTo}); drop is the
\* set of classes the filter rejects
UpdateDecorations(decs, add, drop, filterFrom, filterTo) ==
    {dec \in decs : dec.to < filterFrom \/ dec.from > filterTo
                     \/ dec.class \notin drop} \cup add

----------------------------------------------------------------------------
(* adjustDecorationsAfterEdit: the callback of iterChangedRanges *)

\* the number of the line of the new document that holds offset pos
RECURSIVE LineAtFrom(_, _, _)
LineAtFrom(d, pos, n) ==
    IF n >= Len(d) \/ pos <= LineTo(d, n) THEN n ELSE LineAtFrom(d, pos, n + 1)
LineAt(d, pos) == LineAtFrom(d, pos, 1)

\* the loop that looks up the block of a line, from the last block down;
\* 0 when no block starts at or before the line (index -1 in the source)
RECURSIVE FindBlockFrom(_, _, _)
FindBlockFrom(blocks, lineNo, i) ==
    IF i = 0 THEN 0
    ELSE IF blocks[i].firstLine <= lineNo THEN i
    ELSE FindBlockFrom(blocks, lineNo, i - 1)
FindBlock(blocks, lineNo) == FindBlockFrom(blocks, lineNo, Len(blocks))

\* Array.prototype.remove of Obsidian: drops the occurrences of x
Remove(seq, x) == SelectSeq(seq, LAMBDA y : y # x)

Min(a, b) == IF a < b THEN a ELSE b

\* the edit took place outside the marker area of its line
OutsideMarkerArea(d, ch) ==
    LineFrom(d, LineAt(d, ch.f1)) + MARKER_LEN <= Min(ch.f0, ch.f1)

\* the test is never met
WholeLineEdited_Never(d, ch) == FALSE

\* B: the whole line is the edited part after the edit
WholeLineEdited(d, ch) == Len(d[LineAt(d, ch.f1)]) = ch.t1 - ch.f1

\* the marker toggle is patched locally whether or not the block has
\* another marker line
MarkerToggle_NeverFull(d, n, block, decs) ==
    LET from == LineFrom(d, n)
        to == LineTo(d, n)
    IN
    IF block.special \/ Includes(block.defMarkers, n) = StartsWithMarker(d[n])
    THEN [block |-> block, decorations |-> decs, full |-> FALSE]
    ELSE IF StartsWithMarker(d[n])
    THEN [block |-> [block EXCEPT !.defMarkers = Append(@, n)],
          decorations |-> UpdateDecorations(decs,
              {LineDec(from, DEF_CLASS),
               MarkDec(from, from + MARKER_LEN, MARKER_CLASS)},
              {TERM_CLASS}, from, to),
          full |-> FALSE]
    ELSE [block |-> [block EXCEPT !.defMarkers = Remove(@, n)],
          decorations |-> UpdateDecorations(decs,
              {LineDec(from, TERM_CLASS)},
              {MARKER_CLASS, DEF_CLASS}, from, to),
          full |-> FALSE]

\* D: the marker of the line was added or removed.  Gives the block, the
\* decorations and whether a full redecoration is requested.
MarkerToggle(d, n, block, decs) ==
    LET from == LineFrom(d, n)
        to == LineTo(d, n)
    IN
    IF block.special \/ Includes(block.defMarkers, n) = StartsWithMarker(d[n])
    THEN [block |-> block, decorations |-> decs, full |-> FALSE]
    ELSE IF StartsWithMarker(d[n])
    THEN LET b1 == [block EXCEPT !.defMarkers = Append(@, n)] IN
         IF Len(b1.defMarkers) = 1
         THEN [block |-> b1, decorations |-> decs, full |-> TRUE]
         ELSE [block |-> b1,
               decorations |-> UpdateDecorations(decs,
                   {LineDec(from, DEF_CLASS),
                    MarkDec(from, from + MARKER_LEN, MARKER_CLASS)},
                   {TERM_CLASS}, from, to),
               full |-> FALSE]
    ELSE LET b1 == [block EXCEPT !.defMarkers = Remove(@, n)] IN
         IF Len(b1.defMarkers) = 0
         THEN [block |-> b1, decorations |-> decs, full |-> TRUE]
         ELSE [block |-> b1,
               decorations |-> UpdateDecorations(decs,
                   {LineDec(from, TERM_CLASS)},
                   {MARKER_CLASS, DEF_CLASS}, from, to),
               full |-> FALSE]

\* Terms turned into list items or the other way around
ListToggle(d, n, block, decs) ==
    LET from == LineFrom(d, n)
        to == LineTo(d, n)
    IN
    IF block.special \/ Includes(block.listLines, n) # ~MatchesListStart(d[n])
    THEN [block |-> block, decorations |-> decs]
    ELSE IF ~Includes(block.listLines, n)
    THEN [block |-> [block EXCEPT !.listLines = Append(@, n)],
          decorations |-> UpdateDecorations(decs,
              {LineDec(from, DD_LIST_CLASS)}, {TERM_CLASS}, from, to)]
    ELSE [block |-> [block EXCEPT !.listLines = Remove(@, n)],
          decorations |-> UpdateDecorations(decs,
              {LineDec(from, TERM_CLASS)}, {DD_LIST_CLASS}, from, to)]

\* One call of the callback for the changed range ch, in the new document d.
\* st = [decorations, lineBlocks, full, crash]
AdjustRange(st, d, ch) ==
    LET n == LineAt(d, ch.f1)
        i == FindBlock(st.lineBlocks, n)
    IN
    IF st.full \/ st.crash THEN st
    ELSE IF OutsideMarkerArea(d, ch) THEN st
    ELSE IF WholeLineEdited(d, ch) THEN [st EXCEPT !.full = TRUE]
    ELSE IF i = 0 THEN [st EXCEPT !.crash = TRUE]  \* currentBlock is undefined
    ELSE IF st.lineBlocks[i].special = ~MatchesSpecialStart(d[n])
         THEN [st EXCEPT !.full = TRUE]
    ELSE LET m == MarkerToggle(d, n, st.lineBlocks[i], st.decorations) IN
         IF m.full
         THEN [st EXCEPT !.lineBlocks[i] = m.block, !.full = TRUE]
         ELSE LET l == ListToggle(d, n, m.block, m.decorations) IN
              [st EXCEPT !.lineBlocks[i] = l.block, !.decorations = l.decorations]

RECURSIVE AdjustRanges(_, _, _, _)
AdjustRanges(st, d, chs, k) ==
    IF k > Len(chs) THEN st
    ELSE AdjustRanges(AdjustRange(st, d, chs[k]), d, chs, k + 1)

\* this.decorations.map(update.changes) for the changed ranges in turn
RECURSIVE MapAll(_, _, _)
MapAll(chs, decs, k) ==
    IF k > Len(chs) THEN decs
    ELSE MapAll(chs, MapDecorations(chs[k], decs), k + 1)

\* a changed number of lines is ignored: the decorations are mapped and
\* the blocks are left as they are
AdjustAfterEdit_LineCountIgnored(eng, d, t, rs, chs) ==
    LET mapped == MapAll(chs, eng.decorations, 1)
        st == AdjustRanges([decorations |-> mapped, lineBlocks |-> eng.lineBlocks,
                            full |-> FALSE, crash |-> FALSE], d, chs, 1)
    IN
    IF Len(d) # eng.numberOfLines
    THEN [eng |-> [eng EXCEPT !.decorations = mapped], outcome |-> "adjusted"]
    ELSE IF st.crash
    THEN [eng |-> [eng EXCEPT !.decorations = st.decorations,
                              !.lineBlocks = st.lineBlocks],
          outcome |-> "crash"]
    ELSE IF st.full
    THEN [eng |-> FromScratch(d, t, rs), outcome |-> "rescan"]
    ELSE [eng |-> [eng EXCEPT !.decorations = st.decorations,
                              !.lineBlocks = st.lineBlocks],
          outcome |-> "adjusted"]

\* The engine fields after adjustDecorationsAfterEdit(update).  eng holds the
\* fields before the call, d, t, rs the new document, tree and ranges, chs
\* the changed ranges.  outcome: "rescan" | "adjusted" | "crash".
AdjustAfterEdit(eng, d, t, rs, chs) ==
    LET mapped == MapAll(chs, eng.decorations, 1)
        st == AdjustRanges([decorations |-> mapped, lineBlocks |-> eng.lineBlocks,
                            full |-> FALSE, crash |-> FALSE], d, chs, 1)
    IN
    IF Len(d) # eng.numberOfLines
    THEN [eng |-> FromScratch(d, t, rs), outcome |-> "rescan"]
    ELSE IF st.crash
    THEN [eng |-> [eng EXCEPT !.decorations = st.decorations,
                              !.lineBlocks = st.lineBlocks],
          outcome |-> "crash"]
    ELSE IF st.full
    THEN [eng |-> FromScratch(d, t, rs), outcome |-> "rescan"]
    ELSE [eng |-> [eng EXCEPT !.decorations = st.decorations,
                              !.lineBlocks = st.lineBlocks],
          outcome |-> "adjusted"]

----------------------------------------------------------------------------
(* The environment: documents, the syntax tree, visible ranges, edits *)

MaxLines == 2        \* lines of a document of the edited-document model
MaxRanges == 2       \* visible ranges of one update
MaxEditCol == 4      \* an edit starts at most this many characters into its line
ScanMaxLines == 3    \* lines of a document of the scanner model

EmptyLine == <<>>
ShortLine == Rep("a", 5)
MaxTermLine == Rep("a", MAX_TERM_LEN)
LongLine == Rep("a", MAX_TERM_LEN + 1)
MarkerLine == MARKER \o <<"a">>
TwoSpaceLine == <<":", " ", " ", "a">>
FourSpaceLine == MARKER \o <<" ", "a">>
ListLine == <<"*", " ", "a">>
FenceLine == <<"$", "$">>
HeaderLine == <<"#", " ", "a">>

LineTexts == {EmptyLine, ShortLine, MaxTermLine, LongLine, MarkerLine,
              FourSpaceLine, ListLine, FenceLine, HeaderLine}
CoreTexts == {EmptyLine, ShortLine, MarkerLine}

DocsUpTo(texts, n) == UNION {[1..k -> texts] : k \in 1..n}

\* The syntax tree of a document as the editor's Markdown parser builds it,
\* seen through lineType(): a line of two dollar signs or three backticks
\* opens a region (BLOCK_START_TYPES) or closes the open one
\* (BLOCK_END_TYPES); a line inside a region is of a BLOCK_INNER_TYPES node
\* or of none of the listed nodes (normal); a header or quote line is of
\* CONTIGUOUS_BLOCK_TYPES, a list line of LIST_TYPES.
IsFence(text) ==
    StartsWith(text, <<"$", "$">>) \/ StartsWith(text, <<BACKTICK, BACKTICK, BACKTICK>>)
IsHeaderOrQuote(text) ==
    StartsWith(text, <<"#", " ">>) \/ StartsWith(text, <<">", " ">>)

OracleKinds(text, inRegion) ==
    IF IsFence(text) THEN {IF inRegion THEN "blockEnd" ELSE "blockStart"}
    ELSE IF inRegion THEN {"block", "normal"}
    ELSE IF IsHeaderOrQuote(text) THEN {"contiguousBlock"}
    ELSE IF MatchesListStart(text) THEN {"listItem"}
    ELSE {"normal"}

RECURSIVE OracleFrom(_, _, _)
OracleFrom(d, n, inRegion) ==
    IF n > Len(d) THEN {<<>>}
    ELSE {<<k>> \o rest :
            k \in OracleKinds(d[n], inRegion),
            rest \in OracleFrom(d, n + 1, IF IsFence(d[n]) THEN ~inRegion ELSE inRegion)}

OracleTrees(d) == OracleFrom(d, 1, FALSE)

\* update.view.visibleRanges: at most k ranges in document order, given by
\* the numbers of their first and last line; the border between two ranges
\* may fall within a line, which then ends one range and starts the next
RECURSIVE RangesFrom(_, _, _)
RangesFrom(n, lo0, k) ==
    IF k = 0 THEN {<<>>}
    ELSE {<<>>} \cup
         {<<<<lo, hi>>>> \o rest :
            lo \in lo0..n, hi \in lo0..n, rest \in RangesFrom(n, lo0, k - 1)}
RangeSetsOK(rs) ==
    /\ Len(rs) >= 1
    /\ \A k \in 1..Len(rs) : rs[k][1] <= rs[k][2]
    /\ \A k \in 1..(Len(rs) - 1) : rs[k][2] <= rs[k + 1][1]
RangeSets(n) == {rs \in RangesFrom(n, 1, MaxRanges) : RangeSetsOK(rs)}

\* length of the longest common prefix / suffix of two texts
RECURSIVE CommonPrefix(_, _, _)
CommonPrefix(a, b, k) ==
    IF k < Len(a) /\ k < Len(b) /\ a[k + 1] = b[k + 1]
    THEN CommonPrefix(a, b, k + 1) ELSE k
RECURSIVE CommonSuffix(_, _, _, _)
CommonSuffix(a, b, p, k) ==
    IF p + k < Len(a) /\ p + k < Len(b) /\ a[Len(a) - k] = b[Len(b) - k]
    THEN CommonSuffix(a, b, p, k + 1) ELSE k

\* the changed range of replacing line i of d by text new, keeping the
\* first p and the last q characters of the line
LineChange(d, i, new, p, q) ==
    LET from == LineFrom(d, i) IN
    [f0 |-> from + p, t0 |-> from + Len(d[i]) - q,
     f1 |-> from + p, t1 |-> from + Len(new) - q]

\* the changed ranges of the single edits that turn line i into new: the
\* whole line is replaced, or the first p characters and the longest common
\* rest of the line are kept
LineChanges(d, i, new) ==
    {LineChange(d, i, new, 0, 0)} \cup
    {LineChange(d, i, new, p, CommonSuffix(d[i], new, p, 0)) :
        p \in 0..Min(CommonPrefix(d[i], new, 0), MaxEditCol)}

InsertAt(d, i, text) ==
    [k \in 1..(Len(d) + 1) |->
        IF k < i THEN d[k] ELSE IF k = i THEN text ELSE d[k - 1]]
DeleteAt(d, i) ==
    [k \in 1..(Len(d) - 1) |-> IF k < i THEN d[k] ELSE d[k + 1]]

\* inserting text as new line i: the text and a line break at the start of
\* old line i, or a line break and the text at the end of the document
InsertChange(d, i, text) ==
    LET pos == IF i <= Len(d) THEN LineFrom(d, i) ELSE LineTo(d, Len(d)) IN
    [f0 |-> pos, t0 |-> pos, f1 |-> pos, t1 |-> pos + Len(text) + 1]
\* deleting line i with its line break
DeleteChange(d, i) ==
    LET pos == IF i < Len(d) THEN LineFrom(d, i) ELSE LineTo(d, i - 1) IN
    [f0 |-> pos, t0 |-> pos + Len(d[i]) + 1, f1 |-> pos, t1 |-> pos]

----------------------------------------------------------------------------
(* The engine: constructor and update(update) *)

Engine ==
    [decorations |-> decorations, lineBlocks |-> lineBlocks,
     numberOfLines |-> numberOfLines, never_updated |-> never_updated]

SetEngine(e) ==
    /\ decorations' = e.decorations
    /\ lineBlocks' = e.lineBlocks
    /\ numberOfLines' = e.numberOfLines
    /\ never_updated' = e.never_updated

\* no edit came with the last update call, or it is not recorded
NoEdit == [line |-> 0, col |-> 0, from |-> 0, to |-> 0, old |-> <<>>, lines |-> 0]

\* no second document is open
NoPeer == [open |-> FALSE]

\* the lineBlocks array of another instance after a method of this instance
\* has run: the field initialiser gives every instance an array of its own
\* (one array for all instances would follow this instance's)
OtherBlocks_Shared(otherBlocks, thisBlocks) == thisBlocks
OtherBlocks(otherBlocks, thisBlocks) == otherBlocks

\* the fields as the constructor and the field initialisers leave them
EngineInit ==
    /\ decorations = {}
    /\ never_updated = TRUE
    /\ numberOfLines = 1
    /\ lineBlocks = <<>>
    /\ crashed = FALSE
    /\ lastCall = "none"
    /\ lastEdit = NoEdit
    /\ peer = NoPeer

\* no element has been handed to the post-processor
NoElement == [cls |-> "none", divs |-> <<>>]
NothingRendered ==
    /\ element = NoElement
    /\ rendered = <<>>
    /\ signal = "none"

\* update(update) without the test of viewportChanged: every update with
\* a document change is processed
UpdateCall_NoGate(d2, t2, rs2, chs, viewportChanged, viewportMoved, docChanged, isShown) ==
    /\ ~crashed
    /\ UNCHANGED <<element, rendered, signal>>
    /\ doc' = d2
    /\ tree' = t2
    /\ ranges' = rs2
    /\ IF viewportMoved \/ (never_updated /\ isShown)
       THEN /\ SetEngine(FromScratch(d2, t2, rs2))
            /\ lastCall' = IF never_updated THEN "scratch" ELSE "moved"
            /\ UNCHANGED crashed
       ELSE IF docChanged
       THEN LET r == AdjustAfterEdit(Engine, d2, t2, rs2, chs) IN
            /\ SetEngine(r.eng)
            /\ lastCall' = r.outcome
            /\ crashed' = (r.outcome = "crash")
       ELSE /\ UNCHANGED <<decorations, lineBlocks, numberOfLines, never_updated, crashed>>
            /\ lastCall' = "idle"
    /\ peer' = IF peer.open
               THEN [peer EXCEPT !.lineBlocks = OtherBlocks(@, lineBlocks')]
               ELSE peer

\* update(update) for an update to document d2 with tree t2, visible ranges
\* rs2 and changed ranges chs.  An update that throws ends the plugin.
UpdateCall(d2, t2, rs2, chs, viewportChanged, viewportMoved, docChanged, isShown) ==
    /\ ~crashed
    /\ UNCHANGED <<element, rendered, signal>>
    /\ doc' = d2
    /\ tree' = t2
    /\ ranges' = rs2
    /\ IF ~viewportChanged /\ ~never_updated
       THEN /\ UNCHANGED <<decorations, lineBlocks, numberOfLines, never_updated, crashed>>
            /\ lastCall' = "ignored"
       ELSE IF viewportMoved \/ (never_updated /\ isShown)
       THEN /\ SetEngine(FromScratch(d2, t2, rs2))
            /\ lastCall' = IF never_updated THEN "scratch" ELSE "moved"
            /\ UNCHANGED crashed
       ELSE IF docChanged
       THEN LET r == AdjustAfterEdit(Engine, d2, t2, rs2, chs) IN
            /\ SetEngine(r.eng)
            /\ lastCall' = r.outcome
            /\ crashed' = (r.outcome = "crash")
       ELSE /\ UNCHANGED <<decorations, lineBlocks, numberOfLines, never_updated, crashed>>
            /\ lastCall' = "idle"
    /\ peer' = IF peer.open
               THEN [peer EXCEPT !.lineBlocks = OtherBlocks(@, lineBlocks')]
               ELSE peer

\* contentDOM.isShown() is looked at only before the first scan
Shown == IF never_updated THEN BOOLEAN ELSE {TRUE}

\* an update without a document change: focus, geometry, selection
Refresh ==
    /\ \E vc \in BOOLEAN, shown \in Shown :
          UpdateCall(doc, tree, ranges, <<>>, vc, FALSE, FALSE, shown)
    /\ lastEdit' = NoEdit

\* scrolling: viewportMoved, other ranges become visible
Scroll ==
    /\ \E rs \in RangeSets(Len(doc)) :
          UpdateCall(doc, tree, rs, <<>>, TRUE, TRUE, FALSE, TRUE)
    /\ lastEdit' = NoEdit

\* a second full scan that leaves the blocks of the scan before it in the
\* list
Rescan_NoSplice ==
    /\ ~crashed
    /\ UNCHANGED <<doc, tree, ranges, crashed, element, rendered, signal, peer>>
    /\ LET r == FromScratch(doc, tree, ranges) IN
       SetEngine([r EXCEPT !.lineBlocks = lineBlocks \o r.lineBlocks])
    /\ lastCall' = IF never_updated THEN "scratch" ELSE "moved"
    /\ lastEdit' = NoEdit

\* viewportMoved while the same lines stay visible: a second full scan
Rescan ==
    /\ UpdateCall(doc, tree, ranges, <<>>, TRUE, TRUE, FALSE, TRUE)
    /\ lastEdit' = NoEdit

\* an edit inside one line that leaves one of texts; the editor reports
\* viewportChanged for it.  The line, the start column and the replaced
\* range of the edit are recorded when the start column is one of cols.
EditLineTo(texts, cols) ==
    \E i \in 1..Len(doc), new \in texts, shown \in Shown :
        LET d2 == [doc EXCEPT ![i] = new] IN
        /\ new # doc[i]
        /\ \E ch \in LineChanges(doc, i, new), t2 \in OracleTrees(d2) :
              /\ UpdateCall(d2, t2, ranges, <<ch>>, TRUE, FALSE, TRUE, shown)
              /\ lastEdit' = IF ch.f0 - LineFrom(doc, i) \in cols
                             THEN [line |-> i, col |-> ch.f0 - LineFrom(doc, i),
                                   from |-> ch.f0, to |-> ch.t0,
                                   old |-> doc[i], lines |-> Len(doc)]
                             ELSE NoEdit
EditLine == EditLineTo(LineTexts, {})

\* an edit that adds a line
InsertLineTo(texts, maxLines, track) ==
    /\ Len(doc) < maxLines
    /\ \E i \in 1..(Len(doc) + 1), text \in texts, shown \in Shown :
        LET d2 == InsertAt(doc, i, text)
            ch == InsertChange(doc, i, text)
        IN
        \E t2 \in OracleTrees(d2), rs \in RangeSets(Len(d2)) :
            /\ UpdateCall(d2, t2, rs, <<ch>>, TRUE, FALSE, TRUE, shown)
            /\ lastEdit' = IF track
                           THEN [line |-> i, col |-> 0, from |-> ch.f0, to |-> ch.t0,
                                 old |-> <<>>, lines |-> Len(doc)]
                           ELSE NoEdit
InsertLine == InsertLineTo(LineTexts, MaxLines, FALSE)

\* an edit that removes a line
DeleteLineOf(track) ==
    /\ Len(doc) > 1
    /\ \E i \in 1..Len(doc), shown \in Shown :
        LET d2 == DeleteAt(doc, i)
            ch == DeleteChange(doc, i)
        IN
        \E t2 \in OracleTrees(d2), rs \in RangeSets(Len(d2)) :
            /\ UpdateCall(d2, t2, rs, <<ch>>, TRUE, FALSE, TRUE, shown)
            /\ lastEdit' = IF track
                           THEN [line |-> i, col |-> 0, from |-> ch.f0, to |-> ch.t0,
                                 old |-> doc[i], lines |-> Len(doc)]
                           ELSE NoEdit
DeleteLine == DeleteLineOf(FALSE)

Init ==
    /\ doc \in DocsUpTo(LineTexts, MaxLines)
    /\ tree \in OracleTrees(doc)
    /\ ranges \in RangeSets(Len(doc))
    /\ EngineInit
    /\ NothingRendered

Next == Refresh \/ Scroll \/ EditLine \/ InsertLine \/ DeleteLine

Spec == Init /\ [][Next]_vars

----------------------------------------------------------------------------
(* The edit model with the last edit on record: edits inside a line, the   *)
(* edits that start behind the marker zone recorded                         *)

\* terms and definitions of every length, and a list line
TrackedTexts ==
    {ShortLine, MaxTermLine, LongLine, MarkerLine, FourSpaceLine, ListLine}

\* the edits that start behind the marker zone are on record
TrackedEditLine == EditLineTo(TrackedTexts, MARKER_LEN..(MAX_TERM_LEN + 1))

InitTracked ==
    /\ doc \in DocsUpTo(TrackedTexts, MaxLines)
    /\ tree \in OracleTrees(doc)
    /\ ranges \in RangeSets(Len(doc))
    /\ EngineInit
    /\ NothingRendered

NextTracked == Refresh \/ Scroll \/ TrackedEditLine

SpecTracked == InitTracked /\ [][NextTracked]_vars

----------------------------------------------------------------------------
(* The edit model with the last edit on record: edits of short lines, in   *)
(* and behind the marker zone, and edits that add or remove a line          *)

ZoneMaxLines == 2

\* a line that starts with a number, and the same line as an item of an
\* ordered list: a full stop behind the number
NumberLine == <<"1", "2", "3", "4", " ", "a">>
NumberedLine == <<"1", "2", "3", "4", ".", " ", "a">>

ZoneTexts == {EmptyLine, ShortLine, MarkerLine, ListLine, NumberLine, NumberedLine}

ZoneEditLine == EditLineTo(ZoneTexts, 0..(MAX_TERM_LEN + 1))
ZoneInsertLine == InsertLineTo(ZoneTexts, ZoneMaxLines, TRUE)
ZoneDeleteLine == DeleteLineOf(TRUE)

InitZone ==
    /\ doc \in DocsUpTo(ZoneTexts, ZoneMaxLines)
    /\ tree \in OracleTrees(doc)
    /\ ranges \in RangeSets(Len(doc))
    /\ EngineInit
    /\ NothingRendered

NextZone == Refresh \/ ZoneEditLine \/ ZoneInsertLine \/ ZoneDeleteLine

SpecZone == InitZone /\ [][NextZone]_vars

----------------------------------------------------------------------------
(* The gate model: edits that come with every combination of the flags     *)
(* viewportChanged and viewportMoved that the editor reports.  The editor  *)
(* sets viewportMoved only together with viewportChanged, and it reports   *)
(* viewportChanged for an edit unless the offsets of the viewport and of   *)
(* the visible ranges stay as they are.                                    *)

\* an edit inside one line that leaves the viewport and the visible ranges
\* as they are: the line keeps its length, or it lies behind the last
\* visible range.  docChanged without viewportChanged.
QuietEdit ==
    \E i \in 1..Len(doc), new \in CoreTexts, shown \in Shown :
        LET d2 == [doc EXCEPT ![i] = new] IN
        /\ new # doc[i]
        /\ Len(new) = Len(doc[i]) \/ i > ranges[Len(ranges)][2]
        /\ \E ch \in LineChanges(doc, i, new), t2 \in OracleTrees(d2) :
              /\ UpdateCall(d2, t2, ranges, <<ch>>, FALSE, FALSE, TRUE, shown)
              /\ lastEdit' = [line |-> i, col |-> ch.f0 - LineFrom(doc, i),
                              from |-> ch.f0, to |-> ch.t0,
                              old |-> doc[i], lines |-> Len(doc)]

\* an edit inside one line that comes with a scroll: docChanged with
\* viewportChanged and viewportMoved
MovedEdit ==
    \E i \in 1..Len(doc), new \in CoreTexts, shown \in Shown :
        LET d2 == [doc EXCEPT ![i] = new] IN
        /\ new # doc[i]
        /\ \E ch \in LineChanges(doc, i, new), t2 \in OracleTrees(d2),
                 rs \in RangeSets(Len(d2)) :
              /\ UpdateCall(d2, t2, rs, <<ch>>, TRUE, TRUE, TRUE, shown)
              /\ lastEdit' = [line |-> i, col |-> ch.f0 - LineFrom(doc, i),
                              from |-> ch.f0, to |-> ch.t0,
                              old |-> doc[i], lines |-> Len(doc)]

GateEditLine == EditLineTo(CoreTexts, 0..(MAX_TERM_LEN + 1))

InitGate ==
    /\ doc \in DocsUpTo(CoreTexts, MaxLines)
    /\ tree \in OracleTrees(doc)
    /\ ranges \in RangeSets(Len(doc))
    /\ EngineInit
    /\ NothingRendered

NextGate == Refresh \/ Scroll \/ GateEditLine \/ QuietEdit \/ MovedEdit

SpecGate == InitGate /\ [][NextGate]_vars

----------------------------------------------------------------------------
(* The model of two open documents: the editor makes one                   *)
(* DocumentDecorationEngine per view and calls update() of each            *)

PeerMaxLines == 1    \* lines of the second document

\* a second document is opened: the constructor and the field initialisers
\* run for its engine
PeerOpen ==
    /\ ~peer.open
    /\ \E d \in DocsUpTo(CoreTexts, PeerMaxLines) :
       \E t \in OracleTrees(d), rs \in RangeSets(Len(d)) :
          peer' = [open |-> TRUE, doc |-> d, tree |-> t, ranges |-> rs,
                   decorations |-> {}, lineBlocks |-> <<>>, numberOfLines |-> 1,
                   never_updated |-> TRUE, crashed |-> FALSE]
    /\ UNCHANGED <<doc, tree, ranges, decorations, never_updated, numberOfLines,
                   lineBlocks, crashed, lastCall, element, rendered, signal,
                   lastEdit>>

\* update(update) of the second engine
PeerUpdate(d2, t2, rs2, chs, viewportChanged, viewportMoved, docChanged, isShown) ==
    LET eng == [decorations |-> peer.decorations, lineBlocks |-> peer.lineBlocks,
                numberOfLines |-> peer.numberOfLines,
                never_updated |-> peer.never_updated]
        r == IF ~viewportChanged /\ ~peer.never_updated
             THEN [eng |-> eng, outcome |-> "ignored"]
             ELSE IF viewportMoved \/ (peer.never_updated /\ isShown)
             THEN [eng |-> FromScratch(d2, t2, rs2), outcome |-> "scratch"]
             ELSE IF docChanged
             THEN AdjustAfterEdit(eng, d2, t2, rs2, chs)
             ELSE [eng |-> eng, outcome |-> "idle"]
    IN
    /\ peer.open
    /\ ~peer.crashed
    /\ peer' = [open |-> TRUE, doc |-> d2, tree |-> t2, ranges |-> rs2,
                decorations |-> r.eng.decorations, lineBlocks |-> r.eng.lineBlocks,
                numberOfLines |-> r.eng.numberOfLines,
                never_updated |-> r.eng.never_updated,
                crashed |-> (r.outcome = "crash")]
    /\ lineBlocks' = OtherBlocks(lineBlocks, r.eng.lineBlocks)
    /\ UNCHANGED <<doc, tree, ranges, decorations, never_updated, numberOfLines,
                   crashed, lastCall, element, rendered, signal, lastEdit>>

\* an update of the second engine without a document change
PeerRefresh ==
    /\ peer.open
    /\ \E vc \in BOOLEAN, vm \in BOOLEAN :
          /\ vm => vc
          /\ PeerUpdate(peer.doc, peer.tree, peer.ranges, <<>>, vc, vm, FALSE, TRUE)

\* an edit inside a line of the second document
PeerEditLine ==
    /\ peer.open
    /\ \E i \in 1..Len(peer.doc), new \in CoreTexts :
        LET d2 == [peer.doc EXCEPT ![i] = new] IN
        /\ new # peer.doc[i]
        /\ \E ch \in LineChanges(peer.doc, i, new), t2 \in OracleTrees(d2) :
              PeerUpdate(d2, t2, peer.ranges, <<ch>>, TRUE, FALSE, TRUE, TRUE)

NextPeers == Refresh \/ GateEditLine \/ PeerOpen \/ PeerRefresh \/ PeerEditLine

SpecPeers == InitGate /\ [][NextPeers]_vars

----------------------------------------------------------------------------
(* The scanner model: full rescans of any document with any tree *)

\* Scenario C of the README: a definition list interrupted by a formula
FormulaLine == <<"C", "=", "1">>
ScenarioCDoc(term) ==
    <<term, MarkerLine, FenceLine, FormulaLine, FenceLine, FourSpaceLine>>
ScenarioCTree(inner) ==
    <<"normal", "normal", "blockStart", inner, "blockEnd", "normal">>
ScenarioCRanges ==
    {<<<<1, 6>>>>, <<<<1, 3>>, <<5, 6>>>>, <<<<1, 3>>, <<4, 6>>>>}
IsScenarioC ==
    /\ \E term \in {ShortLine, MaxTermLine} : doc = ScenarioCDoc(term)
    /\ \E inner \in {"block", "normal", "none"} : tree = ScenarioCTree(inner)
    /\ ranges \in ScenarioCRanges

\* a formula region right under a header, with or without a second header
\* right under the region
HeaderRegionDoc(inner) == <<HeaderLine, FenceLine, inner, FenceLine>>
HeaderRegionTree(kind) == <<"contiguousBlock", "blockStart", kind, "blockEnd">>
IsHeaderRegion ==
    /\ \E inner \in {FormulaLine, MarkerLine, EmptyLine} :
       \E kind \in {"block", "normal", "listItem"} :
          \/ doc = HeaderRegionDoc(inner) /\ tree = HeaderRegionTree(kind)
          \/ /\ doc = Append(HeaderRegionDoc(inner), HeaderLine)
             /\ tree = Append(HeaderRegionTree(kind), "contiguousBlock")
    /\ ranges \in RangeSets(Len(doc))

ColonLine == <<":", "a">>
ScanTexts == CoreTexts \cup {LongLine, MaxTermLine, ColonLine, TwoSpaceLine, FourSpaceLine}

\* all documents of core texts, shorter ones of all texts, with every tree
\* and every set of visible ranges; and the scenarios
InitScan ==
    /\ \/ /\ doc \in DocsUpTo(CoreTexts, ScanMaxLines) \cup
                     DocsUpTo(ScanTexts, ScanMaxLines - 1)
          /\ tree \in [1..Len(doc) -> LineTypesOrNone]
          /\ ranges \in RangeSets(Len(doc))
       \/ IsScenarioC
       \/ IsHeaderRegion
    /\ EngineInit
    /\ NothingRendered

NextScan == Refresh \/ Rescan

SpecScan == InitScan /\ [][NextScan]_vars

----------------------------------------------------------------------------
(* The view model: full rescans of the documents of the edited-document   *)
(* model, with the tree of the editor's parser, one line longer            *)

ViewMaxLines == 3

InitView ==
    /\ doc \in DocsUpTo(LineTexts, ViewMaxLines)
    /\ tree \in OracleTrees(doc)
    /\ ranges \in RangeSets(Len(doc))
    /\ EngineInit
    /\ NothingRendered

NextView == Refresh \/ Scroll

SpecView == InitView /\ [][NextView]_vars

----------------------------------------------------------------------------
(* The Static Formatter: postProcessDefinitionLists(element)               *)
(*                                                                         *)
(* A node of inline content is a text node, a line break element or an     *)
(* inline element (bold); HTML text is a sequence of tokens, a token       *)
(* being a character or a tag.  A block element is a paragraph, a list     *)
(* (its kids are the list items, an item being its child nodes), a header  *)
(* or a definition list (its kids are the dd, dt and p containers).        *)

NL == "\n"

TextNode(text) == [kind |-> "text", text |-> text]
BR == [kind |-> "br", text |-> <<>>]
InlineElement(text) == [kind |-> "el", text |-> text]

Par(nodes) == [tag |-> "p", kids |-> nodes]
ListOf(tag, items) == [tag |-> tag, kids |-> items]
Header(nodes) == [tag |-> "h1", kids |-> nodes]
DefList(containers) == [tag |-> "dl", kids |-> containers]
Container(tag, nodes) == [tag |-> tag, kids |-> nodes]

Tags == {"<br>", "<b>", "</b>"}

\* node.innerHTML of a parent with these child nodes
RECURSIVE InnerHTML(_)
InnerHTML(nodes) ==
    IF nodes = <<>> THEN <<>>
    ELSE LET node == Head(nodes) IN
         (CASE node.kind = "br" -> <<"<br>">>
            [] node.kind = "el" -> <<"<b>">> \o node.text \o <<"</b>">>
            [] OTHER -> node.text) \o InnerHTML(Tail(nodes))

\* the number of leading tokens of html that are characters
RECURSIVE TextRun(_, _)
TextRun(html, k) ==
    IF k < Len(html) /\ html[k + 1] \notin Tags THEN TextRun(html, k + 1) ELSE k
\* the position of the first end tag of html at or after k; past the end of
\* html if there is none (the parser then closes the element itself)
RECURSIVE EndTag(_, _)
EndTag(html, k) ==
    IF k > Len(html) \/ html[k] = "</b>" THEN k ELSE EndTag(html, k + 1)

\* the child nodes that assigning html to innerHTML gives an element
RECURSIVE ParseHTML(_)
ParseHTML(html) ==
    IF html = <<>> THEN <<>>
    ELSE IF Head(html) = "<br>" THEN <<BR>> \o ParseHTML(Tail(html))
    ELSE IF Head(html) = "</b>" THEN ParseHTML(Tail(html))
    ELSE IF Head(html) = "<b>"
    THEN LET e == EndTag(html, 2) IN
         <<InlineElement(SubSeq(html, 2, e - 1))>> \o
             ParseHTML(SubSeq(html, e + 1, Len(html)))
    ELSE LET n == TextRun(html, 0) IN
         <<TextNode(SubSeq(html, 1, n))>> \o ParseHTML(SubSeq(html, n + 1, Len(html)))

\* MARKER_REGEX matches s at index k (counted from 0): the marker at the
\* very start of s, or a newline at k and the marker after it
MARKER_REGEX(s, k) ==
    \/ k = 0 /\ StartsWith(s, MARKER)
    \/ /\ k < Len(s)
       /\ s[k + 1] = NL
       /\ StartsWith(SubSeq(s, k + 2, Len(s)), MARKER)
\* s.match(MARKER_REGEX).index; -1 when match() returns null
MatchIndex(s) ==
    IF \E k \in 0..Len(s) : MARKER_REGEX(s, k)
    THEN CHOOSE k \in 0..Len(s) :
            MARKER_REGEX(s, k) /\ \A j \in 0..(k - 1) : ~MARKER_REGEX(s, j)
    ELSE -1
Matches(s) == MatchIndex(s) # -1

\* s.slice(from) and s.slice(from, to)
SliceFrom(s, from) == SubSeq(s, from + 1, Len(s))
Slice(s, from, to) == SubSeq(s, from + 1, to)

\* every line is a term: the marker is not looked for
insertClonedNode_TermOnly(node, st) ==
    IF node.kind = "br" THEN [st EXCEPT !.startOfLine = TRUE]
    ELSE IF st.startOfLine
    THEN [defList |-> Append(st.defList, Container("dt", <<node>>)),
          startOfLine |-> FALSE]
    ELSE [st EXCEPT !.defList[Len(st.defList)].kids = Append(@, node)]

\* insertClonedNode(node, defList): startOfLine is the closure variable;
\* itemElement is the container created last, the last child of defList
insertClonedNode(node, st) ==
    IF node.kind = "br" THEN [st EXCEPT !.startOfLine = TRUE]
    ELSE IF st.startOfLine
    THEN [defList |->
            Append(st.defList,
                IF Matches(node.text)
                THEN Container("dd", <<[node EXCEPT !.text = SliceFrom(node.text, 4)]>>)
                ELSE IF Len(node.text) <= MAX_TERM_LEN
                THEN Container("dt", <<node>>)
                ELSE Container("p", <<node>>)),
          startOfLine |-> FALSE]
    ELSE [st EXCEPT !.defList[Len(st.defList)].kids = Append(@, node)]

RECURSIVE InsertNodes(_, _)
InsertNodes(nodes, st) ==
    IF nodes = <<>> THEN st
    ELSE InsertNodes(Tail(nodes), insertClonedNode(Head(nodes), st))

\* a new dl filled with the clones of nodes
FillDefList(nodes) ==
    DefList(InsertNodes(nodes, [defList |-> <<>>, startOfLine |-> TRUE]).defList)

IsList(el) == el.tag \in {"ul", "ol"}
\* some li of the list has the marker in its innerHTML
HasMarkerItem(lst) ==
    \E k \in 1..Len(lst.kids) : Matches(InnerHTML(lst.kids[k]))

\* the first marker item is cut and a dl follows the list, but the items
\* after it are left out
SplitList_NoContinuation(lst) ==
    IF ~HasMarkerItem(lst) THEN <<lst>>
    ELSE LET k == CHOOSE i \in 1..Len(lst.kids) :
                     /\ Matches(InnerHTML(lst.kids[i]))
                     /\ \A j \in 1..(i - 1) : ~Matches(InnerHTML(lst.kids[j]))
             originalHTML == InnerHTML(lst.kids[k])
             newlinePos == MatchIndex(originalHTML)
             li == ParseHTML(Slice(originalHTML, 0, newlinePos))
             virtual == ParseHTML(SliceFrom(originalHTML, newlinePos + 1))
         IN  <<[lst EXCEPT !.kids = Append(SubSeq(lst.kids, 1, k - 1), li)],
               FillDefList(virtual)>>

\* the list is split at its first marker item only: the items after it move
\* to the new list as they are
SplitList_FirstOnly(lst) ==
    IF ~HasMarkerItem(lst) THEN <<lst>>
    ELSE LET k == CHOOSE i \in 1..Len(lst.kids) :
                     /\ Matches(InnerHTML(lst.kids[i]))
                     /\ \A j \in 1..(i - 1) : ~Matches(InnerHTML(lst.kids[j]))
             originalHTML == InnerHTML(lst.kids[k])
             newlinePos == MatchIndex(originalHTML)
             li == ParseHTML(Slice(originalHTML, 0, newlinePos))
             virtual == ParseHTML(SliceFrom(originalHTML, newlinePos + 1))
             cut == [lst EXCEPT !.kids = Append(SubSeq(lst.kids, 1, k - 1), li)]
             newList == [lst EXCEPT !.kids = SubSeq(lst.kids, k + 1, Len(lst.kids))]
         IN  IF k = Len(lst.kids) THEN <<cut, FillDefList(virtual)>>
             ELSE <<cut, FillDefList(virtual), newList>>

\* listItems.forEach for the items of one list: the siblings that stand in
\* the place of the list afterwards.  The first marker item is cut at the
\* marker, a dl with its rest follows the list, and the items after it move
\* to a new list after the dl, where the next marker item is found.
RECURSIVE SplitList(_)
SplitList(lst) ==
    IF ~HasMarkerItem(lst) THEN <<lst>>
    ELSE LET k == CHOOSE i \in 1..Len(lst.kids) :
                     /\ Matches(InnerHTML(lst.kids[i]))
                     /\ \A j \in 1..(i - 1) : ~Matches(InnerHTML(lst.kids[j]))
             originalHTML == InnerHTML(lst.kids[k])
             newlinePos == MatchIndex(originalHTML)
             li == ParseHTML(Slice(originalHTML, 0, newlinePos))
             virtual == ParseHTML(SliceFrom(originalHTML, newlinePos + 1))
             defList == FillDefList(virtual)
             cut == [lst EXCEPT !.kids = Append(SubSeq(lst.kids, 1, k - 1), li)]
             newList == [lst EXCEPT !.kids = SubSeq(lst.kids, k + 1, Len(lst.kids))]
         IN  IF k = Len(lst.kids) THEN <<cut, defList>>
             ELSE <<cut, defList>> \o SplitList(newList)

\* the children of a div after listItems.forEach
RECURSIVE SplitLists(_)
SplitLists(div) ==
    IF div = <<>> THEN <<>>
    ELSE (IF IsList(Head(div)) THEN SplitList(Head(div)) ELSE <<Head(div)>>)
            \o SplitLists(Tail(div))

\* the promise is fulfilled at once and the element is left as it is
postProcessDefinitionLists_SignalOnly(el) ==
    [divs |-> el.divs, signal |-> "fulfilled"]

\* postProcessDefinitionLists(element): the children of the div(s) afterwards
\* and the value returned.  For a markdown-rendered element the second
\* findAll is given a string that is not a selector and throws inside the
\* promise's executor, before any paragraph is replaced: the promise is
\* rejected.
postProcessDefinitionLists(el) ==
    IF el.cls \notin {"el-p", "el-ul", "el-ol", "markdown-rendered"}
    THEN [divs |-> el.divs, signal |-> "undefined"]
    ELSE IF el.cls = "el-p"
    THEN LET div == el.divs[1] IN
         IF ~Matches(InnerHTML(div[1].kids))
         THEN [divs |-> el.divs, signal |-> "undefined"]
         ELSE [divs |-> <<[div EXCEPT ![Len(div)] = FillDefList(div[Len(div)].kids)]>>,
               signal |-> "fulfilled"]
    ELSE IF el.cls \in {"el-ul", "el-ol"}
    THEN LET div == el.divs[1] IN
         IF ~\E k \in 1..Len(div) : IsList(div[k]) /\ HasMarkerItem(div[k])
         THEN [divs |-> el.divs, signal |-> "undefined"]
         ELSE [divs |-> <<SplitLists(div)>>, signal |-> "fulfilled"]
    ELSE [divs |-> el.divs, signal |-> "rejected"]

\* the renderer calls the post-processor once for an element
Format ==
    /\ signal = "none"
    /\ element # NoElement
    /\ LET r == postProcessDefinitionLists(element) IN
       /\ rendered' = r.divs
       /\ signal' = r.signal
    /\ UNCHANGED <<doc, tree, ranges, decorations, never_updated, numberOfLines,
                   lineBlocks, crashed, lastCall, element, lastEdit, peer>>

----------------------------------------------------------------------------
(* The rendered-text model: one source text, shown by the editor and       *)
(* rendered for Reading view (one div) or for export (the page)            *)

MaxParLines == 3     \* lines of a source paragraph
MaxItems == 3        \* items of a source list
MaxBlocks == 2       \* blocks of an exported page

ParTexts == {ShortLine, MarkerLine, MaxTermLine, LongLine}

\* a block of the source text
SourcePar(lines) == [kind |-> "p", lines |-> lines, items |-> <<>>]
SourceList(kind, items) == [kind |-> kind, lines |-> <<>>, items |-> items]
SourceHeader(line) == [kind |-> "h1", lines |-> <<line>>, items |-> <<>>]

\* the lines of an item: a text, a definition under it, a term after that
ItemSources ==
    {<<ShortLine>>, <<ShortLine, MarkerLine>>, <<ShortLine, MarkerLine, ShortLine>>,
     <<MarkerLine>>}

ParSources == {SourcePar(ls) : ls \in DocsUpTo(ParTexts, MaxParLines)}
ListSources ==
    {SourceList(kind, its) : kind \in {"ul", "ol"}, its \in DocsUpTo(ItemSources, MaxItems)}
PageBlocks ==
    {SourcePar(<<MarkerLine>>), SourcePar(<<ShortLine, MarkerLine>>),
     SourcePar(<<ShortLine>>), SourceHeader(ShortLine),
     SourceList("ul", <<<<ShortLine, MarkerLine>>, <<ShortLine>>>>)}
PageSources == DocsUpTo(PageBlocks, MaxBlocks)

\* the inline content the renderer makes of the lines of a paragraph or of
\* an item: a br element and a newline between two lines
RECURSIVE RenderLines(_)
RenderLines(lines) ==
    IF Len(lines) = 1 THEN <<TextNode(lines[1])>>
    ELSE RenderLines(SubSeq(lines, 1, Len(lines) - 1)) \o
            <<BR, TextNode(<<NL>> \o lines[Len(lines)])>>

RenderBlock(b) ==
    CASE b.kind = "p" -> Par(RenderLines(b.lines))
      [] b.kind = "h1" -> Header(RenderLines(b.lines))
      [] OTHER -> ListOf(b.kind, [k \in 1..Len(b.items) |-> RenderLines(b.items[k])])

ClassOf(b) ==
    CASE b.kind = "p" -> "el-p"
      [] b.kind = "ul" -> "el-ul"
      [] b.kind = "ol" -> "el-ol"
      [] OTHER -> "el-h1"

\* Reading view hands over the div of one block, export the page div
RenderFragment(b) == [cls |-> ClassOf(b), divs |-> <<<<RenderBlock(b)>>>>]
RenderPage(bs) ==
    [cls |-> "markdown-rendered", divs |-> [k \in 1..Len(bs) |-> <<RenderBlock(bs[k])>>]]

\* the source lines of a block
RECURSIVE ItemLines(_, _)
ItemLines(kind, items) ==
    IF items = <<>> THEN <<>>
    ELSE LET bullet == IF kind = "ul" THEN <<"*", " ">> ELSE <<"1", ".", " ">> IN
         <<bullet \o Head(items)[1]>> \o Tail(Head(items)) \o ItemLines(kind, Tail(items))
SourceLines(b) ==
    CASE b.kind = "p" -> b.lines
      [] b.kind = "h1" -> <<<<"#", " ">> \o b.lines[1]>>
      [] OTHER -> ItemLines(b.kind, b.items)
\* the source lines of a page: an empty line between two blocks
RECURSIVE PageLines(_)
PageLines(bs) ==
    IF Len(bs) = 1 THEN SourceLines(bs[1])
    ELSE PageLines(SubSeq(bs, 1, Len(bs) - 1)) \o <<EmptyLine>> \o SourceLines(bs[Len(bs)])

InitStatic ==
    /\ \/ \E b \in ParSources \cup ListSources \cup {SourceHeader(ShortLine)} :
             element = RenderFragment(b) /\ doc = SourceLines(b)
       \/ \E bs \in PageSources :
             element = RenderPage(bs) /\ doc = PageLines(bs)
    /\ rendered = element.divs
    /\ signal = "none"
    /\ tree \in OracleTrees(doc)
    /\ ranges = <<<<1, Len(doc)>>>>
    /\ EngineInit

NextStatic == Format \/ Refresh \/ Rescan

SpecStatic == InitStatic /\ [][NextStatic]_vars

----------------------------------------------------------------------------
(* Properties *)

\* the last update call ran decorateVisibleRangesFromScratch
AfterFullRescan == lastCall \in {"scratch", "moved", "rescan"}
\* the last update call ran adjustDecorationsAfterEdit to its end
AfterEdit == lastCall \in {"rescan", "adjusted"}

\* C1: after every update call that delivered a change set to an engine
\* that has done its first scan, the decoration set of the engine equals the
\* one a full rescan of the current document over the current visible
\* ranges produces.
C1_DecorationsMatchRescan ==
    (AfterEdit /\ ~never_updated) =>
        decorations = FromScratch(doc, tree, ranges).decorations


\* the recorded block that holds line n: the last block that starts at or
\* before it (0: none)
BlockOfLine(n) == FindBlock(lineBlocks, n)
\* the line a decoration is anchored on
LineOfDecoration(dec) == LineAt(doc, dec.from)

\* C2: every decoration lies on a line of a recorded block that is not
\* special and has at least one marker line.
C2_DecorationsOnlyInDefinitionLists ==
    \A dec \in decorations :
        /\ BlockOfLine(LineOfDecoration(dec)) # 0
        /\ IsDefinitionList(lineBlocks[BlockOfLine(LineOfDecoration(dec))])


\* the text starts, at column 0, with a colon and three spaces
HasMarkerPrefix(text) ==
    /\ Len(text) >= 4
    /\ text[1] = ":" /\ text[2] = " " /\ text[3] = " " /\ text[4] = " "

\* the decorations anchored on line n
DecorationsOfLine(n) == {dec \in decorations : LineOfDecoration(dec) = n}

\* the lines [firstLine, nextBlock.firstLine) of recorded block i; the last
\* block runs to the last scanned line
ExtentOfBlock(i) ==
    lineBlocks[i].firstLine .. (BlockEnd(lineBlocks, i, LnrAfterScan(ranges)) - 1)

\* line n was looked up in the tree by the last scan
Scanned(n) == \E k \in 1..Len(ranges) : ranges[k][1] <= n /\ n <= ranges[k][2]

\* the role the line-role rule gives line n, as a set of decorations, when
\* the oracle's answer for the line is kind
RuleDecorations(n, kind) ==
    IF HasMarkerPrefix(doc[n])
    THEN {[from |-> LineFrom(doc, n), to |-> LineFrom(doc, n), class |-> "view-dd"],
          [from |-> LineFrom(doc, n), to |-> LineFrom(doc, n) + 4,
           class |-> "view-dd-marker"]}
    ELSE IF kind = "listItem"
    THEN {[from |-> LineFrom(doc, n), to |-> LineFrom(doc, n), class |-> "view-dd-li"]}
    ELSE IF Len(doc[n]) >= 1 /\ Len(doc[n]) <= 100
    THEN {[from |-> LineFrom(doc, n), to |-> LineFrom(doc, n), class |-> "view-dt"]}
    ELSE {}

RecordedAsMarker(n) ==
    \E i \in 1..Len(lineBlocks) : Includes(lineBlocks[i].defMarkers, n)
\* line n carries the definition decoration or a marker range
DecoratedAsDefinition(n) ==
    \E dec \in DecorationsOfLine(n) : dec.class \in {"view-dd", "view-dd-marker"}
\* the scanner tests the text of line n for the marker: the line is looked
\* up and the tree says normal or listItem
MarkerTested(n) == Scanned(n) /\ tree[n] \in {"normal", "listItem"}
\* line n lies in a recorded definition-list block
InDefinitionList(n) ==
    \E i \in 1..Len(lineBlocks) :
        IsDefinitionList(lineBlocks[i]) /\ n \in ExtentOfBlock(i)

\* C4: after a full rescan a line is a marker line for the scanner (where
\* the scanner tests it) and for the classifier (in a definition-list
\* block) if and only if its text starts with a colon and three spaces.
C4_MarkerDetection ==
    AfterFullRescan =>
        \A n \in 1..Len(doc) :
            /\ RecordedAsMarker(n) => (MarkerTested(n) /\ HasMarkerPrefix(doc[n]))
            /\ MarkerTested(n) => (RecordedAsMarker(n) <=> HasMarkerPrefix(doc[n]))
            /\ InDefinitionList(n) =>
                  (DecoratedAsDefinition(n) <=> HasMarkerPrefix(doc[n]))

\* C4 witness: a block with a marker line and a line that only starts with
\* a colon, the first recorded and decorated as definition, the second not
C4_Witness ==
    /\ AfterFullRescan
    /\ \E n \in 1..Len(doc), m \in 1..Len(doc) :
          /\ RecordedAsMarker(n) /\ DecoratedAsDefinition(n)
          /\ InDefinitionList(m) /\ MarkerTested(m)
          /\ doc[m] # <<>> /\ doc[m][1] = ":"
          /\ ~RecordedAsMarker(m) /\ ~DecoratedAsDefinition(m)

\* the number of spaces that follow the first character of a text
RECURSIVE SpacesFrom(_, _)
SpacesFrom(text, k) ==
    IF k <= Len(text) /\ text[k] = " " THEN 1 + SpacesFrom(text, k + 1) ELSE 0
StartsWithColon(text) == Len(text) >= 1 /\ text[1] = ":"

\* C5 as stated: a line that starts with a colon followed by more or by
\* fewer than three spaces is never recorded as a marker line and never
\* decorated as a definition.
C5_ExactlyThreeSpaces ==
    AfterFullRescan =>
        \A n \in 1..Len(doc) :
            (StartsWithColon(doc[n]) /\ SpacesFrom(doc[n], 2) # 3) =>
                (~RecordedAsMarker(n) /\ ~DecoratedAsDefinition(n))

\* C5 amended: a line that starts with a colon followed by fewer than three
\* spaces is never recorded as a marker line and never decorated as a
\* definition; a line that starts with a colon followed by more than three
\* spaces is a marker line like one with exactly three.
C5_AtLeastThreeSpaces ==
    AfterFullRescan =>
        \A n \in 1..Len(doc) :
            /\ (StartsWithColon(doc[n]) /\ SpacesFrom(doc[n], 2) < 3) =>
                  (~RecordedAsMarker(n) /\ ~DecoratedAsDefinition(n))
            /\ (StartsWithColon(doc[n]) /\ SpacesFrom(doc[n], 2) > 3) =>
                  /\ MarkerTested(n) => RecordedAsMarker(n)
                  /\ InDefinitionList(n) => DecoratedAsDefinition(n)

\* C5 witness: a rescanned block with a colon and two spaces on one line,
\* not recognised, and a colon and four spaces on another, recognised
C5_Witness ==
    /\ AfterFullRescan
    /\ \E n \in 1..Len(doc), m \in 1..Len(doc) :
          /\ StartsWithColon(doc[n]) /\ SpacesFrom(doc[n], 2) = 2
          /\ InDefinitionList(n) /\ ~DecoratedAsDefinition(n)
          /\ StartsWithColon(doc[m]) /\ SpacesFrom(doc[m], 2) = 4
          /\ RecordedAsMarker(m) /\ DecoratedAsDefinition(m)


\* line n lies in a code or formula region of the tree: from a blockStart
\* line to the next blockEnd line, both included
RECURSIVE RegionOpenAfter(_)
RegionOpenAfter(n) ==
    IF n = 0 THEN FALSE
    ELSE IF tree[n] = "blockStart" THEN TRUE
    ELSE IF tree[n] = "blockEnd" THEN FALSE
    ELSE RegionOpenAfter(n - 1)
InRegion(n) == tree[n] \in {"blockStart", "blockEnd"} \/ RegionOpenAfter(n - 1)
\* line n is a special line: in a region, or a header, quote, table, rule
SpecialLine(n) == InRegion(n) \/ tree[n] = "contiguousBlock"

\* C6: after a full rescan and after any later edit, no line of a code or
\* formula region and no contiguousBlock line carries a decoration.
C6_SpecialLinesUndecorated ==
    (~never_updated /\ ~crashed) =>
        \A n \in 1..Len(doc) : SpecialLine(n) => DecorationsOfLine(n) = {}

\* lines n and m lie in one run of lines without an empty line and without
\* a special line
SameRun(n, m) ==
    \A k \in 1..Len(doc) :
        ((n <= k /\ k <= m) \/ (m <= k /\ k <= n)) =>
            (doc[k] # <<>> /\ ~SpecialLine(k))

\* C7: after a full rescan a line is decorated only if a marker line lies
\* in its run of lines without an empty line and without a special line.
C7_BlockLimitation ==
    AfterFullRescan =>
        \A n \in 1..Len(doc) :
            DecorationsOfLine(n) # {} =>
                \E m \in 1..Len(doc) : HasMarkerPrefix(doc[m]) /\ SameRun(n, m)

\* C8: after a full rescan the recorded blocks have strictly increasing
\* firstLine values, the first block starts at the first scanned line, and
\* every scanned line lies in the extent of exactly one block.
C8_BlockPartition ==
    AfterFullRescan =>
        /\ Len(lineBlocks) >= 1
        /\ lineBlocks[1].firstLine = ranges[1][1]
        /\ \A i \in 1..(Len(lineBlocks) - 1) :
              lineBlocks[i].firstLine < lineBlocks[i + 1].firstLine
        /\ \A n \in 1..Len(doc) :
              Scanned(n) =>
                  Cardinality({i \in 1..Len(lineBlocks) : n \in ExtentOfBlock(i)}) = 1

\* C9: the six lines of Scenario C give three blocks, starting at lines 1,
\* 3 and 6, the second special, with the markers of lines 2 and 6; line 1
\* is a term, lines 2 and 6 are definitions with a marker range, lines 3 to
\* 5 are not decorated.
C9_FormulaInterruptsList ==
    (AfterFullRescan /\ IsScenarioC) =>
        /\ lineBlocks =
              <<[firstLine |-> 1, special |-> FALSE, defMarkers |-> <<2>>,
                 listLines |-> <<>>],
                [firstLine |-> 3, special |-> TRUE, defMarkers |-> <<>>,
                 listLines |-> <<>>],
                [firstLine |-> 6, special |-> FALSE, defMarkers |-> <<6>>,
                 listLines |-> <<>>]>>
        /\ \A n \in 1..6 :
              {dec.class : dec \in DecorationsOfLine(n)} =
                  IF n = 1 THEN {"view-dt"}
                  ELSE IF n \in {2, 6} THEN {"view-dd", "view-dd-marker"}
                  ELSE {}
        /\ Cardinality(decorations) = 5

C9_Witness == AfterFullRescan /\ IsScenarioC /\ Len(lineBlocks) = 3

\* line n is a block of its own: a marker line between empty lines or the
\* ends of the document, looked up by the last scan as a normal line
LoneMarkerLine(n) ==
    /\ HasMarkerPrefix(doc[n])
    /\ Scanned(n) /\ tree[n] = "normal"
    /\ n = 1 \/ (doc[n - 1] = <<>> /\ Scanned(n - 1) /\ tree[n - 1] = "normal")
    /\ n = Len(doc) \/ (doc[n + 1] = <<>> /\ Scanned(n + 1) /\ tree[n + 1] = "normal")
\* the element handed over is the div of a paragraph that is one text node
\* starting with the marker
LoneMarkerParagraph ==
    /\ element.cls = "el-p"
    /\ Len(element.divs) = 1 /\ Len(element.divs[1]) = 1
    /\ element.divs[1][1].tag = "p"
    /\ Len(element.divs[1][1].kids) = 1
    /\ element.divs[1][1].kids[1].kind = "text"
    /\ HasMarkerPrefix(element.divs[1][1].kids[1].text)

\* C10: a marker line that is a block of its own is, after a full rescan,
\* in a definition-list block and carries the definition decoration and the
\* marker range and nothing else; a paragraph fragment that is one marker
\* line is replaced by a definition list of one dd and no dt, and the
\* promise is fulfilled.
C10_LoneDefinition ==
    /\ AfterFullRescan =>
          \A n \in 1..Len(doc) :
              LoneMarkerLine(n) =>
                  /\ InDefinitionList(n)
                  /\ {dec.class : dec \in DecorationsOfLine(n)} =
                        {"view-dd", "view-dd-marker"}
                  /\ Cardinality(DecorationsOfLine(n)) = 2
    /\ (signal # "none" /\ LoneMarkerParagraph) =>
          /\ signal = "fulfilled"
          /\ Len(rendered) = 1 /\ Len(rendered[1]) = 1
          /\ rendered[1][1].tag = "dl"
          /\ Len(rendered[1][1].kids) = 1
          /\ rendered[1][1].kids[1].tag = "dd"

\* C10 witness: the source text is one marker line; the editor has scanned
\* it and the fragment has been formatted
C10_Witness ==
    /\ AfterFullRescan /\ Len(doc) = 1 /\ LoneMarkerLine(1)
    /\ Cardinality(decorations) = 2
    /\ signal = "fulfilled" /\ LoneMarkerParagraph
    /\ rendered[1][1].tag = "dl"

\* C11: in every state of an engine that has not thrown, a line of length
\* 0 carries no decoration, whatever the tree says of the line.
C11_EmptyLinesUndecorated ==
    ~crashed =>
        \A n \in 1..Len(doc) : doc[n] = <<>> => DecorationsOfLine(n) = {}

\* the elements that stand in the rendered divs, and the dl among them
RenderedElements ==
    UNION {{rendered[i][j] : j \in 1..Len(rendered[i])} : i \in 1..Len(rendered)}
RenderedDefLists == {e \in RenderedElements : e.tag = "dl"}
\* line n carries a decoration of definition text
DecoratedAsDefinitionText(n) ==
    \E dec \in DecorationsOfLine(n) : dec.class \in {"view-dd", "view-dd-li"}

\* C12: after a full rescan every non-empty line of a definition-list block
\* is decorated as a term or as definition text, and a line of more than 100
\* characters without marker is decorated as definition text; every
\* container of a definition list made by the formatter is a dt or a dd.
C12_TwoRoles ==
    /\ AfterFullRescan =>
          \A n \in 1..Len(doc) :
              (InDefinitionList(n) /\ doc[n] # <<>>) =>
                  /\ DecorationsOfLine(n) # {}
                  /\ Len(doc[n]) > MAX_TERM_LEN => DecoratedAsDefinitionText(n)
    /\ signal = "fulfilled" =>
          \A dl \in RenderedDefLists :
              \A k \in 1..Len(dl.kids) : dl.kids[k].tag \in {"dt", "dd"}

\* the classes of the decorations of decs that start at offset pos
ClassesAt(decs, pos) == {dec.class : dec \in {x \in decs : x.from = pos}}
\* an offset after an edit that replaced [from, to) and changed the length
\* of the text by delta: offsets up to from stay, offsets from to on move
ShiftPos(pos, from, to, delta) ==
    IF pos <= from THEN pos ELSE IF pos >= to THEN pos + delta ELSE from
ShiftedBy(decs, from, to, delta) ==
    {[from |-> ShiftPos(dec.from, from, to, delta),
      to |-> ShiftPos(dec.to, from, to, delta),
      class |-> dec.class] : dec \in decs}
\* this step is an update call with a recorded edit inside one line, to an
\* engine that has done its first scan
EditStep == lastEdit'.line # 0 /\ ~never_updated /\ ~crashed

C14_TermDemotion ==
    [][LET i == lastEdit'.line IN
       (/\ EditStep
        /\ Len(doc[i]) <= MAX_TERM_LEN /\ Len(doc'[i]) > MAX_TERM_LEN
        /\ "view-dt" \in ClassesAt(decorations, LineFrom(doc, i))
        /\ i < Len(doc) /\ HasMarkerPrefix(doc[i + 1])) =>
          /\ "view-dt" \notin ClassesAt(decorations', LineFrom(doc', i))
          /\ ClassesAt(decorations', LineFrom(doc', i + 1)) =
                ClassesAt(decorations, LineFrom(doc, i + 1))]_vars

\* the tree with every line the oracle has no classification for taken as
\* a normal line
MissAsNormal(t) == [n \in DOMAIN t |-> IF t[n] = "none" THEN "normal" ELSE t[n]]

\* C15: a line without a classification is scanned exactly as a normal
\* line: after a full rescan the blocks and the decorations are those the
\* scan gives when every such line is classified normal, and no error is
\* raised.
C15_MissIsNormal ==
    /\ ~crashed
    /\ AfterFullRescan =>
          LET r == FromScratch(doc, MissAsNormal(tree), ranges) IN
          /\ lineBlocks = r.lineBlocks
          /\ decorations = r.decorations

\* C16: no update call raises an error, whatever the state of the engine
\* and the edit.
C16_NoError == ~crashed

RECURSIVE LogicalLines(_)
LogicalLines(nodes) ==
    IF \A k \in 1..Len(nodes) : nodes[k].kind # "br" THEN <<nodes>>
    ELSE LET b == CHOOSE k \in 1..Len(nodes) :
                     /\ nodes[k].kind = "br"
                     /\ \A j \in 1..(k - 1) : nodes[j].kind # "br"
         IN <<SubSeq(nodes, 1, b - 1)>> \o
                LogicalLines(SubSeq(nodes, b + 1, Len(nodes)))
\* node.textContent of the nodes of a run, one after the other
RECURSIVE TextContent(_)
TextContent(run) ==
    IF run = <<>> THEN <<>> ELSE Head(run).text \o TextContent(Tail(run))
\* the characters of a logical line: the newline that the renderer puts
\* behind a br is the end of the line before
LineOfRun(run) ==
    LET s == TextContent(run) IN IF s # <<>> /\ Head(s) = NL THEN Tail(s) ELSE s
\* the container the rule gives a logical line
ContainerOfLine(line) ==
    IF StartsWith(line, MARKER) THEN "dd"
    ELSE IF Len(line) <= MAX_TERM_LEN THEN "dt" ELSE "p"
IsSuffix(s, t) == Len(s) <= Len(t) /\ SubSeq(t, Len(t) - Len(s) + 1, Len(t)) = s
\* the container holds the nodes of the run, in their order; of the first
\* node a prefix (newline, marker) may have been taken away
HoldsRun(container, run) ==
    /\ Len(container.kids) = Len(run)
    /\ \A k \in 1..Len(run) :
          /\ container.kids[k].kind = run[k].kind
          /\ IF k = 1 THEN IsSuffix(container.kids[k].text, run[k].text)
             ELSE container.kids[k].text = run[k].text

\* C18: the dl that replaces a paragraph with a marker has one container
\* per logical line, in the order of the lines: a dd when the line starts
\* with the marker, a dt when it does not and has at most 100 characters, a
\* p when it does not and has more; the container of a line holds the nodes
\* of the line, each once and in their order.
C18_ContainerPerLine ==
    (signal = "fulfilled" /\ element.cls = "el-p") =>
        LET lines == LogicalLines(element.divs[1][1].kids)
            dl == rendered[1][1]
        IN /\ dl.tag = "dl"
           /\ Len(dl.kids) = Len(lines)
           /\ \A n \in 1..Len(lines) :
                 /\ dl.kids[n].tag = ContainerOfLine(LineOfRun(lines[n]))
                 /\ HoldsRun(dl.kids[n], lines[n])

IsPrefix(s, t) == Len(s) <= Len(t) /\ SubSeq(t, 1, Len(s)) = s
\* the list items of the lists among els, in document order
RECURSIVE ItemsOf(_)
ItemsOf(els) ==
    IF els = <<>> THEN <<>>
    ELSE (IF IsList(Head(els)) THEN Head(els).kids ELSE <<>>) \o ItemsOf(Tail(els))
\* the index of the first item of lst with the marker in its content
FirstMarkerItem(lst) ==
    CHOOSE i \in 1..Len(lst.kids) :
        /\ Matches(InnerHTML(lst.kids[i]))
        /\ \A j \in 1..(i - 1) : ~Matches(InnerHTML(lst.kids[j]))
\* the post-processor has changed the list fragment of Reading view
ListSplit == signal = "fulfilled" /\ element.cls \in {"el-ul", "el-ol"}

C20_SplitAtMarker ==
    ListSplit =>
        LET lst == element.divs[1][1]
            out == rendered[1]
            k == FirstMarkerItem(lst)
            html == InnerHTML(lst.kids[k])
            kept == InnerHTML(out[1].kids[k])
            remainder == SliceFrom(html, Len(kept))
        IN /\ IsPrefix(kept, html)
           /\ ~Matches(kept)
           /\ StartsWith(remainder, MARKER) \/ StartsWith(remainder, <<NL>> \o MARKER)
           /\ out[2].tag = "dl"
           /\ out[2].kids # <<>>
           /\ out[2].kids[1].tag = "dd"

\* the text of container holds the characters of the logical line run: all
\* but the marker (and the newline before it) for a dd, all of them for a dt
\* or a p, with or without the newline that follows the break
KeepsText(container, run) ==
    LET text == TextContent(container.kids) IN
    IF container.tag = "dd"
    THEN text = SliceFrom(LineOfRun(run), MARKER_LEN)
    ELSE text \in {TextContent(run), LineOfRun(run)}
\* the content of the first marker item of lst from the newline before the
\* marker on, or from the marker when it starts the content
ItemRemainder(lst) ==
    LET html == InnerHTML(lst.kids[FirstMarkerItem(lst)]) IN
    ParseHTML(SliceFrom(html, MatchIndex(html)))

\* C21: a dd holds the text of its logical line without the four characters
\* of the marker and without the newline before them, and nothing else is
\* taken away, for the first line and for a line after a break; a dt or a p
\* holds the text of its line.
C21_MarkerStripped ==
    /\ (signal = "fulfilled" /\ element.cls = "el-p") =>
          LET lines == LogicalLines(element.divs[1][1].kids)
              dl == rendered[1][1]
          IN \A n \in 1..Len(dl.kids) :
                n <= Len(lines) /\ KeepsText(dl.kids[n], lines[n])
    /\ ListSplit =>
          LET lines == LogicalLines(ItemRemainder(element.divs[1][1]))
              dl == rendered[1][2]
          IN \A n \in 1..Len(dl.kids) :
                n <= Len(lines) /\ KeepsText(dl.kids[n], lines[n])

\* the fragment handed over has no marker at the start of a line where the
\* post-processor looks for one
WithoutMarker ==
    \/ element.cls \notin {"el-p", "el-ul", "el-ol", "markdown-rendered"}
    \/ element.cls = "el-p" /\ ~Matches(InnerHTML(element.divs[1][1].kids))
    \/ /\ element.cls \in {"el-ul", "el-ol"}
       /\ \A k \in 1..Len(element.divs[1]) :
             IsList(element.divs[1][k]) => ~HasMarkerItem(element.divs[1][k])
\* C22 for one fragment: without a marker it is returned as it was and
\* nothing is signalled
C22_FragmentUntouched ==
    (signal # "none" /\ WithoutMarker) =>
        rendered = element.divs /\ signal = "undefined"
\* C22 for a page: a paragraph without a marker stays as it was, a
\* paragraph with a marker is replaced by a dl
C22_PageParagraphs ==
    (signal # "none" /\ element.cls = "markdown-rendered") =>
        \A k \in 1..Len(element.divs) :
            LET el == element.divs[k][1] IN
            el.tag = "p" =>
                IF Matches(InnerHTML(el.kids))
                THEN rendered[k][1].tag = "dl"
                ELSE rendered[k] = element.divs[k]

\* C22: an element that is no paragraph, list or page, a paragraph without
\* a marker at the start of a line and a list without such an item are
\* returned unmodified and without a completion signal; in a page the
\* paragraphs without a marker stay as they are and those with a marker are
\* converted.
C22_UntouchedWithoutMarker == C22_FragmentUntouched /\ C22_PageParagraphs

\* a replacement is pending: a paragraph or a list item at the place where
\* the post-processor replaces them still has a marker at the start of a line
ReplacementPending ==
    \E k \in 1..Len(rendered) : \E j \in 1..Len(rendered[k]) :
        LET el == rendered[k][j] IN
        \/ el.tag = "p" /\ Matches(InnerHTML(el.kids))
        \/ IsList(el) /\ HasMarkerItem(el)

\* C23: when the fragment has something to replace the call returns a
\* promise; the promise is fulfilled only with every paragraph replacement
\* and every list split applied, and the fragment is changed by no call
\* that does not fulfil it.
C23_CompletionSignal ==
    /\ (signal # "none" /\ ~WithoutMarker) => signal \in {"fulfilled", "rejected"}
    /\ signal = "fulfilled" => ~ReplacementPending
    /\ rendered # element.divs => signal = "fulfilled"
\* the promise is fulfilled after a list with two marker items was split
\* twice
C23_Witness ==
    /\ signal = "fulfilled"
    /\ element.cls = "el-ul"
    /\ Len(rendered[1]) >= 4
    /\ rendered[1][2].tag = "dl" /\ rendered[1][4].tag = "dl"

\* line n lies strictly inside a region: behind its blockStart line and
\* before the blockEnd line that closes it
StrictlyInRegion(n) ==
    /\ tree[n] \notin {"blockStart", "blockEnd"}
    /\ RegionOpenAfter(n - 1)
    /\ \E m \in (n + 1)..Len(doc) :
          /\ tree[m] = "blockEnd"
          /\ \A j \in n..(m - 1) : tree[j] \notin {"blockStart", "blockEnd"}

\* the tree says block, normal or listItem of every line inside a region
PlainRegions ==
    \A n \in 1..Len(doc) :
        (RegionOpenAfter(n - 1) /\ tree[n] \notin {"blockStart", "blockEnd"}) =>
            tree[n] \in {"block", "normal", "listItem"}

\* C24: after a full rescan no block starts at a line strictly inside a
\* region, whatever the tree says about the lines inside and whatever
\* stands before the region.
C24_RegionsNotSplit ==
    (AfterFullRescan /\ PlainRegions) =>
        \A i \in 1..Len(lineBlocks) : \A n \in 1..Len(doc) :
            StrictlyInRegion(n) => lineBlocks[i].firstLine # n

\* the visible ranges cover a span of lines without a gap: every range
\* starts in the line where the one before it ends, or in the next line
RangesWithoutGap ==
    \A k \in 1..(Len(ranges) - 1) :
        ranges[k + 1][1] \in {ranges[k][2], ranges[k][2] + 1}
\* the span the visible ranges cover, as one range
WholeSpan == <<<<ranges[1][1], ranges[Len(ranges)][2]>>>>

\* C25: a full scan of a span of lines that is visible as several ranges,
\* two of which may meet inside a line or inside a region, gives the block
\* list and the decorations of the scan of the span as one range.
C25_RangeSplitIndependence ==
    (AfterFullRescan /\ RangesWithoutGap) =>
        LET one == FromScratch(doc, tree, WholeSpan) IN
        /\ lineBlocks = one.lineBlocks
        /\ decorations = one.decorations

\* lines s..e are a maximal run of contiguousBlock lines
ContiguousRun(s, e) ==
    /\ s <= e
    /\ \A n \in s..e : tree[n] = "contiguousBlock"
    /\ s = 1 \/ tree[s - 1] # "contiguousBlock"
    /\ e = Len(doc) \/ tree[e + 1] # "contiguousBlock"
\* all lines are visible as one range
AllVisible == ranges = <<<<1, Len(doc)>>>>

\* C26: after a full rescan of the whole document every maximal run of
\* contiguousBlock lines is one special block that starts at the first line
\* of the run, no block starts at a later line of the run, and a normal or
\* listItem line right after the run starts a non-special block.
C26_ContiguousRuns ==
    (AfterFullRescan /\ AllVisible) =>
        \A s \in 1..Len(doc) : \A e \in s..Len(doc) :
            ContiguousRun(s, e) =>
                /\ \E i \in 1..Len(lineBlocks) :
                      lineBlocks[i].firstLine = s /\ lineBlocks[i].special
                /\ \A i \in 1..Len(lineBlocks) : lineBlocks[i].firstLine \notin (s + 1)..e
                /\ (e < Len(doc) /\ tree[e + 1] \in {"normal", "listItem"}) =>
                      \E i \in 1..Len(lineBlocks) :
                          lineBlocks[i].firstLine = e + 1 /\ ~lineBlocks[i].special

\* the update call of this step ran adjustDecorationsAfterEdit
AdjustCalled == lastCall' \in {"rescan", "adjusted", "crash"}
\* after this step the blocks and the decorations are those of a full scan
\* of the new document
RescannedNow ==
    LET r == FromScratch(doc', tree', ranges') IN
    /\ lastCall' = "rescan"
    /\ lineBlocks' = r.lineBlocks
    /\ decorations' = r.decorations
    /\ numberOfLines' = Len(doc')

\* C27: when adjustDecorationsAfterEdit is called with a document whose
\* number of lines is not the recorded numberOfLines, the blocks and the
\* decorations are rebuilt by a full rescan.
C27_LineCountRescan ==
    [][(AdjustCalled /\ Len(doc') # numberOfLines) => RescannedNow]_vars
\* a line was added or removed by the last edit and the rescan has
\* decorated the document
C27_Witness ==
    /\ lastEdit.line # 0
    /\ lastEdit.lines # Len(doc)
    /\ lastCall = "rescan"
    /\ decorations # {}

\* this step is an edit inside one line, the number of lines as it was
LineEditStep == lastEdit'.line # 0 /\ lastEdit'.lines = Len(doc')

RecordedBlock(n) == FindBlock(lineBlocks, n)
\* the lines of recorded block b
LinesOfBlock(b) ==
    {n \in 1..Len(doc) :
        /\ lineBlocks[b].firstLine <= n
        /\ \A j \in 1..Len(lineBlocks) :
              lineBlocks[j].firstLine > lineBlocks[b].firstLine =>
                  n < lineBlocks[j].firstLine}
\* the marker lines of the block of line n, line n left out
OtherMarkers(n) ==
    {k \in LinesOfBlock(RecordedBlock(n)) \ {n} : HasMarkerPrefix(doc[k])}
\* this step is an edit in the marker zone of a line of a recorded block
\* that is not special, after the first scan; it adds the marker to the
\* line or removes it and replaces only a part of the line
MarkerToggleStep ==
    LET n == lastEdit'.line IN
    /\ LineEditStep
    /\ AdjustCalled
    /\ ~never_updated
    /\ lastEdit'.col < MARKER_LEN
    /\ lastEdit'.to - lastEdit'.from < Len(doc[n])
    /\ doc'[n] # <<>>
    /\ RecordedBlock(n) # 0
    /\ ~lineBlocks[RecordedBlock(n)].special
    /\ HasMarkerPrefix(doc[n]) # HasMarkerPrefix(doc'[n])

\* the marker toggle of this step is answered as C29 says
SoleMarkerRule ==
    IF OtherMarkers(lastEdit'.line) = {}
    THEN RescannedNow
    ELSE lastCall' = "adjusted"
\* the last scan has looked at every line of the block of line n
BlockScanned(n) == \A k \in LinesOfBlock(RecordedBlock(n)) : Scanned(k)

OnLine(decs, d, n) ==
    {dec \in decs : LineFrom(d, n) <= dec.from /\ dec.from <= LineTo(d, n)}

\* C30: after a marker toggle on a line of a block that keeps another
\* marker line, the edited line carries the definition decoration and the
\* marker range and nothing else when the marker was added, the term
\* decoration and nothing else when it was removed, and the decorations of
\* the other lines are the old ones, shifted with the text.
C30_LocalMarkerPatch ==
    [][LET n == lastEdit'.line
           from == LineFrom(doc', n)
       IN (MarkerToggleStep /\ BlockScanned(n) /\ OtherMarkers(n) # {}) =>
          /\ OnLine(decorations', doc', n) =
                IF HasMarkerPrefix(doc'[n])
                THEN {LineDec(from, DEF_CLASS),
                      MarkDec(from, from + MARKER_LEN, MARKER_CLASS)}
                ELSE {LineDec(from, TERM_CLASS)}
          /\ decorations' \ OnLine(decorations', doc', n) =
                ShiftedBy(decorations \ OnLine(decorations, doc, n),
                          lastEdit'.from, lastEdit'.to,
                          Len(doc'[n]) - Len(doc[n]))]_vars

\* this step is an edit of a part of a line of a recorded definition-list
\* block whose lines the last scan has all looked at; the line has no marker
\* before and after, and the edit makes it a list item or ends its being one
ListToggleStep ==
    LET n == lastEdit'.line IN
    /\ LineEditStep
    /\ AdjustCalled
    /\ ~never_updated
    /\ lastEdit'.to - lastEdit'.from < Len(doc[n])
    /\ doc'[n] # <<>>
    /\ RecordedBlock(n) # 0
    /\ IsDefinitionList(lineBlocks[RecordedBlock(n)])
    /\ BlockScanned(n)
    /\ ~HasMarkerPrefix(doc[n]) /\ ~HasMarkerPrefix(doc'[n])
    /\ (tree[n] = "listItem") # (tree'[n] = "listItem")

\* C31: an edit that toggles whether a line of a definition-list block is a
\* list item is answered without a full rescan: the line carries the
\* list-item decoration when it has become a list item and the term
\* decoration when it no longer is one, the block's listLines holds the line
\* exactly when it is a list item, and the decorations of the other lines
\* are the old ones, shifted with the text.
C31_LocalListPatch ==
    [][LET n == lastEdit'.line
           from == LineFrom(doc', n)
       IN ListToggleStep =>
          /\ lastCall' = "adjusted"
          /\ OnLine(decorations', doc', n) =
                IF tree'[n] = "listItem"
                THEN {LineDec(from, DD_LIST_CLASS)}
                ELSE {LineDec(from, TERM_CLASS)}
          /\ Includes(lineBlocks'[RecordedBlock(n)].listLines, n) =
                (tree'[n] = "listItem")
          /\ decorations' \ OnLine(decorations', doc', n) =
                ShiftedBy(decorations \ OnLine(decorations, doc, n),
                          lastEdit'.from, lastEdit'.to,
                          Len(doc'[n]) - Len(doc[n]))]_vars

\* the role the Live Engine gives line n: the class of its line decoration
LiveRole(n) ==
    IF \E dec \in DecorationsOfLine(n) : dec.class = DEF_CLASS THEN "definition"
    ELSE IF \E dec \in DecorationsOfLine(n) : dec.class = TERM_CLASS THEN "term"
    ELSE IF \E dec \in DecorationsOfLine(n) : dec.class = DD_LIST_CLASS THEN "list item"
    ELSE "none"
\* the role the Static Formatter gives a logical line: the tag of its
\* container
StaticRole(container) ==
    CASE container.tag = "dd" -> "definition"
      [] container.tag = "dt" -> "term"
      [] OTHER -> "none"

\* C32: for the lines of a paragraph with a marker, the container the
\* Static Formatter makes for a line names the role the Live Engine's full
\* scan gives the same line, and a line without marker is a term in both if
\* and only if it has at most 100 characters, for the first line and for a
\* line after a break.
C32_SameClassification ==
    (signal = "fulfilled" /\ element.cls = "el-p" /\ AfterFullRescan) =>
        LET dl == rendered[1][1] IN
        \A n \in 1..Len(doc) :
            /\ n <= Len(dl.kids)
            /\ StaticRole(dl.kids[n]) = LiveRole(n)
            /\ ~HasMarkerPrefix(doc[n]) =>
                  /\ (StaticRole(dl.kids[n]) = "term") <=> (Len(doc[n]) <= 100)
                  /\ (LiveRole(n) = "term") <=> (Len(doc[n]) <= 100)

\* the last update call has scanned the document or processed an edit
AfterScanOrEdit == lastCall \in {"scratch", "moved", "rescan", "adjusted"}
\* no value stands twice in seq
NoDuplicates(seq) ==
    \A j \in 1..Len(seq) : \A k \in 1..Len(seq) : seq[j] = seq[k] => j = k

\* C33: after every full rescan and every processed edit, the defMarkers of
\* every block that is not special holds exactly the numbers of the lines of
\* the block whose text starts with the marker, each of them once.
C33_MarkersExact ==
    AfterScanOrEdit =>
        \A i \in 1..Len(lineBlocks) :
            ~lineBlocks[i].special =>
                /\ {lineBlocks[i].defMarkers[k] : k \in 1..Len(lineBlocks[i].defMarkers)} =
                      {n \in LinesOfBlock(i) : HasMarkerPrefix(doc[n])}
                /\ NoDuplicates(lineBlocks[i].defMarkers)

\* the classes of the line-role decorations line n carries
RolesOfLine(n) ==
    {dec.class : dec \in DecorationsOfLine(n)} \cap
        {TERM_CLASS, DEF_CLASS, DD_LIST_CLASS}

\* C34: in every state of an engine that has not thrown, a line carries at
\* most one of the decorations term, definition and definition-list-item,
\* and it carries a marker range if and only if it carries the definition
\* decoration.
C34_OneRolePerLine ==
    ~crashed =>
        \A n \in 1..Len(doc) :
            /\ Cardinality(RolesOfLine(n)) <= 1
            /\ (\E dec \in DecorationsOfLine(n) : dec.class = MARKER_CLASS) <=>
                  (DEF_CLASS \in RolesOfLine(n))

\* the fields of the engine after this step are those of a full scan of the
\* new document over the new visible ranges
ScannedNow ==
    LET r == FromScratch(doc', tree', ranges') IN
    /\ lastCall' \in {"scratch", "moved"}
    /\ decorations' = r.decorations
    /\ lineBlocks' = r.lineBlocks
    /\ numberOfLines' = Len(doc')
    /\ never_updated' = FALSE

\* C35: once the engine has done its first scan, an update without
\* viewportChanged leaves the decoration set, the block list and
\* numberOfLines as they are, also when it reports a changed document; an
\* update with viewportMoved runs a full scan, with a changed document and
\* without.
C35_UpdateGate ==
    [][/\ (QuietEdit /\ ~never_updated) =>
             /\ lastCall' = "ignored"
             /\ UNCHANGED <<decorations, lineBlocks, numberOfLines, never_updated>>
       /\ (Scroll \/ MovedEdit) => ScannedNow]_vars
\* an update without viewportChanged has taken the marker from a line, and
\* the line keeps its definition decoration
C35_Witness ==
    /\ lastCall = "ignored"
    /\ lastEdit.line # 0
    /\ HasMarkerPrefix(lastEdit.old)
    /\ ~HasMarkerPrefix(doc[lastEdit.line])
    /\ DecoratedAsDefinition(lastEdit.line)

\* C36: whenever decorateVisibleRangesFromScratch or
\* adjustDecorationsAfterEdit has returned, numberOfLines is the number of
\* lines of the document of that update.
C36_LineCountCurrent == AfterScanOrEdit => numberOfLines = Len(doc)
\* the last edit has made a document of one line a document of two lines,
\* and the engine has recorded the two lines
C36_Witness ==
    /\ lastCall = "rescan"
    /\ lastEdit.line # 0
    /\ lastEdit.lines = 1
    /\ Len(doc) = 2
    /\ numberOfLines = 2

\* the text of the containers of a dl, one after the other
RECURSIVE TextOfContainers(_)
TextOfContainers(cs) ==
    IF cs = <<>> THEN <<>>
    ELSE TextContent(Head(cs).kids) \o TextOfContainers(Tail(cs))
\* the number of items among items that have a marker in their content
RECURSIVE MarkerItems(_)
MarkerItems(items) ==
    IF items = <<>> THEN 0
    ELSE (IF Matches(InnerHTML(Head(items))) THEN 1 ELSE 0) + MarkerItems(Tail(items))

\* the siblings out stand for the items in their order: a list of the kind
\* tag with the items up to the first marker item, that item cut before its
\* marker, then a dl with text of that item, then the same for the items
\* that follow; a list without marker item closes the sequence
RECURSIVE InSplitOrder(_, _, _)
InSplitOrder(out, items, tag) ==
    IF out = <<>> THEN items = <<>>
    ELSE LET m == Len(out[1].kids) IN
         /\ out[1].tag = tag
         /\ m >= 1 /\ m <= Len(items)
         /\ \A j \in 1..(m - 1) :
               out[1].kids[j] = items[j] /\ ~Matches(InnerHTML(items[j]))
         /\ IF Matches(InnerHTML(items[m]))
            THEN /\ IsPrefix(InnerHTML(out[1].kids[m]), InnerHTML(items[m]))
                 /\ ~Matches(InnerHTML(out[1].kids[m]))
                 /\ Len(out) >= 2
                 /\ out[2].tag = "dl"
                 /\ out[2].kids # <<>>
                 /\ IsSuffix(TextOfContainers(out[2].kids), TextContent(items[m]))
                 /\ InSplitOrder(SubSeq(out, 3, Len(out)),
                                 SubSeq(items, m + 1, Len(items)), tag)
            ELSE /\ out[1].kids[m] = items[m]
                 /\ m = Len(items)
                 /\ Len(out) = 1

\* C37: where a list with two or more marker items stood there are as many
\* dl as marker items; every item of the list stands once in the lists that
\* are there now, in the order of the source, the marker items cut before
\* their marker; and the dl of a marker item comes right after the list that
\* ends with that item.
C37_SeveralMarkerItems ==
    (ListSplit /\ MarkerItems(element.divs[1][1].kids) >= 2) =>
        LET lst == element.divs[1][1]
            out == rendered[1]
        IN /\ Cardinality({p \in 1..Len(out) : out[p].tag = "dl"}) =
                 MarkerItems(lst.kids)
           /\ Len(ItemsOf(out)) = Len(lst.kids)
           /\ InSplitOrder(out, lst.kids, lst.tag)
\* a list of three items, the first and the last with a marker, has become
\* a list of one item, a dl, a list of two items and a dl
C37_Witness ==
    /\ ListSplit
    /\ Len(element.divs[1][1].kids) = 3
    /\ Matches(InnerHTML(element.divs[1][1].kids[1]))
    /\ ~Matches(InnerHTML(element.divs[1][1].kids[2]))
    /\ Matches(InnerHTML(element.divs[1][1].kids[3]))
    /\ Len(rendered[1]) = 4
    /\ Len(rendered[1][3].kids) = 2
    /\ rendered[1][4].tag = "dl"

\* the page handed over has a paragraph with a marker and a list with a
\* marker item
PageWithMarkers ==
    /\ element.cls = "markdown-rendered"
    /\ \E k \in 1..Len(element.divs) :
          element.divs[k][1].tag = "p" /\ Matches(InnerHTML(element.divs[k][1].kids))
    /\ \E k \in 1..Len(element.divs) :
          IsList(element.divs[k][1]) /\ HasMarkerItem(element.divs[k][1])

\* C39: after the call for a page with a marker paragraph and a marker list
\* item, every paragraph with a marker is replaced by a dl, every list with
\* a marker item is cut at that item and followed by a dl, and the promise
\* is fulfilled.
C39_WholeDocumentMode ==
    (signal # "none" /\ PageWithMarkers) =>
        /\ signal = "fulfilled"
        /\ \A k \in 1..Len(element.divs) :
              LET el == element.divs[k][1] IN
              /\ (el.tag = "p" /\ Matches(InnerHTML(el.kids))) =>
                    rendered[k][1].tag = "dl"
              /\ (IsList(el) /\ HasMarkerItem(el)) =>
                    /\ Len(rendered[k]) >= 2
                    /\ ~HasMarkerItem(rendered[k][1])
                    /\ rendered[k][2].tag = "dl"

\* the fields of the first engine
EngineFields == <<decorations, lineBlocks, numberOfLines, never_updated>>
\* the fields of the engine of the second document, once it is open
PeerFields(p) ==
    IF p.open
    THEN <<p.decorations, p.lineBlocks, p.numberOfLines, p.never_updated>>
    ELSE <<>>

====
